---- MODULE Spec2Model ----
\* Burnchain operation validation of blockstack-core: LeaderKeyRegisterOp::check
\* and LeaderBlockCommitOp::check against the fork-aware burn database.
\*
\* The store (BurnDB) and the block processor that calls check are not part of
\* the source files modelled here; they follow the query contract of the design
\* document (section 4.E) and the acceptance rule "an operation is stored iff
\* check returned Ok against the snapshot of its block's parent".
\*
\* Two further parts: the test constructors new(), initial() and set_mined_at
\* of the two operations, and the type checks of the map functions of the
\* contract language (vm/checker/typecheck/natives/maps.rs).
EXTENDS Integers, Sequences, FiniteSets

VARIABLES
    snapshots,      \* BlockSnapshot rows of the burn database
    leader_keys,    \* accepted LeaderKeyRegisterOp rows
    block_commits,  \* accepted LeaderBlockCommitOp rows
    last,           \* the check call that has just returned (NoCall when idle)
    type_map        \* TypeChecker.type_map: the type recorded for each expression id

vars == <<snapshots, leader_keys, block_commits, last, type_map>>

-----------------------------------------------------------------------------
\* Bounds of the model.

\* Burnchain.first_block_height, scaled down.
FirstBlockHeight == 1
\* Burnchain.consensus_hash_lifetime, scaled down.
ConsensusHashLifetime == 2
\* Snapshots appended after the first one.
MaxBlocks == 4
\* Operations one block carries; they sit at vtxindex 1..MaxOpsPerBlock.
MaxOpsPerBlock == 2
\* Distinct VRF public keys.
NumPublicKeys == 2
\* Distinct 20-byte address hashes (and the signers that hash to them).
NumAddresses == 2
\* Rows the leader_keys and block_commits tables hold.
MaxLeaderKeys == 2
MaxBlockCommits == 2
\* Snapshots appended before check is called on arbitrary records.
MaxCheckedBlocks == 2
\* Largest back-pointer of a record check is called on.
MaxBackptr == 2

-----------------------------------------------------------------------------
\* Values.

\* op_error codes returned by check, the Ok verdict, and the two ways the
\* call ends without a verdict.
Ok == "Ok"
BlockCommitBadInput == "BlockCommitBadInput"
BlockCommitPredatesGenesis == "BlockCommitPredatesGenesis"
BlockCommitBadEpoch == "BlockCommitBadEpoch"
BlockCommitNoLeaderKey == "BlockCommitNoLeaderKey"
BlockCommitLeaderKeyAlreadyUsed == "BlockCommitLeaderKeyAlreadyUsed"
BlockCommitNoParent == "BlockCommitNoParent"
LeaderKeyAlreadyRegistered == "LeaderKeyAlreadyRegistered"
LeaderKeyBadConsensusHash == "LeaderKeyBadConsensusHash"
\* .expect("FATAL: no parent snapshot in the DB")
FatalNoParentSnapshot == "FatalNoParentSnapshot"
\* "attempt to subtract with overflow" of a build with overflow checks
SubtractOverflow == "SubtractOverflow"

NoCall == [kind |-> "none"]

PublicKeys == 1..NumPublicKeys
AddressBytes == 1..NumAddresses
Vtxindexes == 1..MaxOpsPerBlock
\* Burn header hashes: snapshot number n has hash n; the first snapshot is 0.
FirstBurnHash == 0
\* A hash no snapshot carries.
UnknownBurnHash == -1

\* Address: the sender address of a key registration; to_bytes() yields the
\* hash inside it.
Address(bytes) == [version |-> 0, bytes |-> bytes]
to_bytes(address) == address.bytes

\* BurnchainSigner: to_address_bits() hashes (hash_mode, num_sigs,
\* public_keys); signer number n is the single-signature signer of public
\* key n, whose hash is address hash n.
BurnchainSigner(n) == [hash_mode |-> "SerializeP2PKH", num_sigs |-> 1, public_keys |-> <<n>>]
to_address_bits(input) == input.public_keys[1]

-----------------------------------------------------------------------------
\* The fork DAG.

Snapshot(hash) == CHOOSE s \in snapshots : s.burn_header_hash = hash

\* parent_fork_segment_id of a fork segment (the first segment is its own parent).
ParentSegment(seg) ==
    LET rows == {s \in snapshots : s.fork_segment_id = seg}
    IN  IF rows = {} THEN seg ELSE (CHOOSE s \in rows : TRUE).parent_fork_segment_id

\* The ancestor walk: fork_segment_id -> parent_fork_segment_id, recursively.
RECURSIVE AncestorSegments(_)
AncestorSegments(seg) ==
    IF ParentSegment(seg) = seg THEN {seg}
    ELSE {seg} \cup AncestorSegments(ParentSegment(seg))

\* The blocks a block descends from, itself included (by parent hash).
RECURSIVE AncestorBlocks(_)
AncestorBlocks(hash) ==
    IF hash = FirstBurnHash THEN {hash}
    ELSE {hash} \cup AncestorBlocks(Snapshot(hash).parent_burn_header_hash)

-----------------------------------------------------------------------------
\* BurnDB queries (design document, section 4.E). A row is visible iff its
\* fork_segment_id lies on the ancestor walk and its block_height satisfies
\* the filter. An Option is a set with at most one element expected; a query
\* returns every row its filter matches.

get_first_block_snapshot == Snapshot(FirstBurnHash)

get_block_snapshot(burn_header_hash) ==
    {s \in snapshots : s.burn_header_hash = burn_header_hash}

get_leader_key_at(block_height, vtxindex, fork_segment_id) ==
    {k \in leader_keys : /\ k.fork_segment_id \in AncestorSegments(fork_segment_id)
                         /\ k.block_height = block_height
                         /\ k.vtxindex = vtxindex}

get_block_commit_at(block_height, vtxindex, fork_segment_id) ==
    {c \in block_commits : /\ c.fork_segment_id \in AncestorSegments(fork_segment_id)
                           /\ c.block_height = block_height
                           /\ c.vtxindex = vtxindex}

\* A commit consumes the key at (block_height - key_block_backptr, key_vtxindex).
Consumes(commit, key) ==
    /\ commit.block_height - commit.key_block_backptr = key.block_height
    /\ commit.key_vtxindex = key.vtxindex

is_leader_key_consumed(as_of_block_height, key, fork_segment_id) ==
    \E c \in block_commits :
        /\ c.fork_segment_id \in AncestorSegments(fork_segment_id)
        /\ c.block_height <= as_of_block_height
        /\ Consumes(c, key)

has_VRF_public_key(public_key, fork_segment_id) ==
    \E k \in leader_keys :
        /\ k.fork_segment_id \in AncestorSegments(fork_segment_id)
        /\ k.public_key = public_key

is_fresh_consensus_hash(as_of_block_height, lifetime, consensus_hash, fork_segment_id) ==
    \E s \in snapshots :
        /\ s.fork_segment_id \in AncestorSegments(fork_segment_id)
        /\ s.block_height > as_of_block_height - lifetime
        /\ s.block_height <= as_of_block_height
        /\ s.consensus_hash = consensus_hash

-----------------------------------------------------------------------------
\* LeaderKeyRegisterOp::check. The result is the set of verdicts the call can
\* end with (one, here).

\* A validator that tests the freshness of the consensus hash before the
\* uniqueness of the key.
LeaderKeyRegisterOp_check_fresh_first(op, block_header) ==
    LET tips == get_block_snapshot(block_header.parent_block_hash)
    IN  IF tips = {} THEN {FatalNoParentSnapshot}
        ELSE LET chain_tip == CHOOSE t \in tips : TRUE
             IN  IF ~is_fresh_consensus_hash(chain_tip.block_height, ConsensusHashLifetime,
                                             op.consensus_hash, chain_tip.fork_segment_id)
                 THEN {LeaderKeyBadConsensusHash}
                 ELSE IF has_VRF_public_key(op.public_key, chain_tip.fork_segment_id)
                 THEN {LeaderKeyAlreadyRegistered}
                 ELSE {Ok}

\* A validator whose freshness window reaches one block further down.
LeaderKeyRegisterOp_check_wider_window(op, block_header) ==
    LET tips == get_block_snapshot(block_header.parent_block_hash)
    IN  IF tips = {} THEN {FatalNoParentSnapshot}
        ELSE LET chain_tip == CHOOSE t \in tips : TRUE
             IN  IF has_VRF_public_key(op.public_key, chain_tip.fork_segment_id)
                 THEN {LeaderKeyAlreadyRegistered}
                 ELSE IF ~is_fresh_consensus_hash(chain_tip.block_height, ConsensusHashLifetime + 1,
                                                  op.consensus_hash, chain_tip.fork_segment_id)
                 THEN {LeaderKeyBadConsensusHash}
                 ELSE {Ok}

\* A validator that answers LeaderKeyBadConsensusHash when the parent
\* snapshot is missing.
LeaderKeyRegisterOp_check_no_abort(op, block_header) ==
    LET tips == get_block_snapshot(block_header.parent_block_hash)
    IN  IF tips = {} THEN {LeaderKeyBadConsensusHash}
        ELSE LET chain_tip == CHOOSE t \in tips : TRUE
             IN  IF has_VRF_public_key(op.public_key, chain_tip.fork_segment_id)
                 THEN {LeaderKeyAlreadyRegistered}
                 ELSE IF ~is_fresh_consensus_hash(chain_tip.block_height, ConsensusHashLifetime,
                                                  op.consensus_hash, chain_tip.fork_segment_id)
                 THEN {LeaderKeyBadConsensusHash}
                 ELSE {Ok}

\* A validator that reports either error when both rules reject.
LeaderKeyRegisterOp_check_either_error(op, block_header) ==
    LET tips == get_block_snapshot(block_header.parent_block_hash)
    IN  IF tips = {} THEN {FatalNoParentSnapshot}
        ELSE LET chain_tip == CHOOSE t \in tips : TRUE
                 registered == has_VRF_public_key(op.public_key, chain_tip.fork_segment_id)
                 stale == ~is_fresh_consensus_hash(chain_tip.block_height, ConsensusHashLifetime,
                                                   op.consensus_hash, chain_tip.fork_segment_id)
             IN  IF registered /\ stale THEN {LeaderKeyAlreadyRegistered, LeaderKeyBadConsensusHash}
                 ELSE IF registered THEN {LeaderKeyAlreadyRegistered}
                 ELSE IF stale THEN {LeaderKeyBadConsensusHash}
                 ELSE {Ok}

LeaderKeyRegisterOp_check(op, block_header) ==
    LET tips == get_block_snapshot(block_header.parent_block_hash)
    IN  IF tips = {} THEN {FatalNoParentSnapshot}
        ELSE LET chain_tip == CHOOSE t \in tips : TRUE
             IN  IF has_VRF_public_key(op.public_key, chain_tip.fork_segment_id)
                 THEN {LeaderKeyAlreadyRegistered}
                 ELSE IF ~is_fresh_consensus_hash(chain_tip.block_height, ConsensusHashLifetime,
                                                  op.consensus_hash, chain_tip.fork_segment_id)
                 THEN {LeaderKeyBadConsensusHash}
                 ELSE {Ok}

-----------------------------------------------------------------------------
\* LeaderBlockCommitOp::check.

\* u64 arithmetic: 2^64 scaled to the integers of the model; every height
\* and back-pointer of the model lies far below it.
U64 == 2^30
wrapping_sub(a, b) == (a - b) % U64

\* A validator that compares the epoch without testing the height against
\* the first snapshot.
CheckBurnAndEpoch_no_genesis_test(op, first_block_snapshot) ==
    IF op.burn_fee = 0 THEN BlockCommitBadInput
    ELSE IF op.epoch_num # wrapping_sub(op.block_height, first_block_snapshot.block_height)
    THEN BlockCommitBadEpoch
    ELSE IF op.key_block_backptr = 0 THEN BlockCommitNoLeaderKey
    ELSE Ok

\* A validator that lets a commit point at a key of its own block.
CheckBurnAndEpoch_same_block_key(op, first_block_snapshot) ==
    IF op.burn_fee = 0 THEN BlockCommitBadInput
    ELSE IF op.block_height < first_block_snapshot.block_height
    THEN BlockCommitPredatesGenesis
    ELSE IF op.epoch_num # wrapping_sub(op.block_height, first_block_snapshot.block_height)
    THEN BlockCommitBadEpoch
    ELSE Ok

\* The part of check that reads the record and the first snapshot only: there
\* must be a burn, the height must not predate the first snapshot, the epoch
\* must be the current one, the key must not sit in the same block. Ok: none
\* of these rejects.
CheckBurnAndEpoch(op, first_block_snapshot) ==
    IF op.burn_fee = 0 THEN BlockCommitBadInput
    ELSE IF op.block_height < first_block_snapshot.block_height
    THEN BlockCommitPredatesGenesis
    ELSE IF op.epoch_num # wrapping_sub(op.block_height, first_block_snapshot.block_height)
    THEN BlockCommitBadEpoch
    ELSE IF op.key_block_backptr = 0 THEN BlockCommitNoLeaderKey
    ELSE Ok

\* A validator that looks for the parent before it tests whether the key is
\* consumed.
CheckWithKey_parent_first(op, chain_tip, register_key, parent_block_height) ==
    IF op.parent_block_backptr = 0 /\ op.parent_vtxindex # 0
    THEN BlockCommitNoParent
    ELSE IF /\ (op.parent_block_backptr # 0 \/ op.parent_vtxindex # 0)
            /\ get_block_commit_at(parent_block_height, op.parent_vtxindex,
                                   chain_tip.fork_segment_id) = {}
    THEN BlockCommitNoParent
    ELSE IF is_leader_key_consumed(chain_tip.block_height, register_key, chain_tip.fork_segment_id)
    THEN BlockCommitLeaderKeyAlreadyUsed
    ELSE IF to_address_bits(op.input) # to_bytes(register_key.address)
    THEN BlockCommitBadInput
    ELSE Ok

\* A validator that does not compare the signer with the key's address.
CheckWithKey_any_signer(op, chain_tip, register_key, parent_block_height) ==
    IF is_leader_key_consumed(chain_tip.block_height, register_key, chain_tip.fork_segment_id)
    THEN BlockCommitLeaderKeyAlreadyUsed
    ELSE IF op.parent_block_backptr = 0 /\ op.parent_vtxindex # 0
    THEN BlockCommitNoParent
    ELSE IF /\ (op.parent_block_backptr # 0 \/ op.parent_vtxindex # 0)
            /\ get_block_commit_at(parent_block_height, op.parent_vtxindex,
                                   chain_tip.fork_segment_id) = {}
    THEN BlockCommitNoParent
    ELSE Ok

\* A validator that does not test whether the key is consumed.
CheckWithKey_reusable_key(op, chain_tip, register_key, parent_block_height) ==
    IF op.parent_block_backptr = 0 /\ op.parent_vtxindex # 0
    THEN BlockCommitNoParent
    ELSE IF /\ (op.parent_block_backptr # 0 \/ op.parent_vtxindex # 0)
            /\ get_block_commit_at(parent_block_height, op.parent_vtxindex,
                                   chain_tip.fork_segment_id) = {}
    THEN BlockCommitNoParent
    ELSE IF to_address_bits(op.input) # to_bytes(register_key.address)
    THEN BlockCommitBadInput
    ELSE Ok

\* A validator that looks the parent up even for a commit that builds off
\* the genesis block.
CheckWithKey_genesis_parent_lookup(op, chain_tip, register_key, parent_block_height) ==
    IF is_leader_key_consumed(chain_tip.block_height, register_key, chain_tip.fork_segment_id)
    THEN BlockCommitLeaderKeyAlreadyUsed
    ELSE IF op.parent_block_backptr = 0 /\ op.parent_vtxindex # 0
    THEN BlockCommitNoParent
    ELSE IF get_block_commit_at(parent_block_height, op.parent_vtxindex,
                                chain_tip.fork_segment_id) = {}
    THEN BlockCommitNoParent
    ELSE IF to_address_bits(op.input) # to_bytes(register_key.address)
    THEN BlockCommitBadInput
    ELSE Ok

\* The part of check that follows the lookup of the leader key: the key must
\* be unused, the parent must exist, the signer must hash to the key's address.
CheckWithKey(op, chain_tip, register_key, parent_block_height) ==
    IF is_leader_key_consumed(chain_tip.block_height, register_key, chain_tip.fork_segment_id)
    THEN BlockCommitLeaderKeyAlreadyUsed
    ELSE IF op.parent_block_backptr = 0 /\ op.parent_vtxindex # 0
    THEN BlockCommitNoParent
    ELSE IF /\ (op.parent_block_backptr # 0 \/ op.parent_vtxindex # 0)
            /\ get_block_commit_at(parent_block_height, op.parent_vtxindex,
                                   chain_tip.fork_segment_id) = {}
    THEN BlockCommitNoParent
    ELSE IF to_address_bits(op.input) # to_bytes(register_key.address)
    THEN BlockCommitBadInput
    ELSE Ok

\* A u64 subtraction of check's first two lines underflows.
Underflows(op) ==
    \/ op.block_height < op.key_block_backptr
    \/ op.block_height < op.parent_block_backptr

\* A validator that looks the key up on the fork segment the header names,
\* not on the segment of the parent snapshot.
LeaderBlockCommitOp_check_header_segment(op, block_header, overflow_checks) ==
    IF overflow_checks /\ Underflows(op) THEN {SubtractOverflow}
    ELSE
    LET leader_key_block_height == wrapping_sub(op.block_height, op.key_block_backptr)
        parent_block_height == wrapping_sub(op.block_height, op.parent_block_backptr)
        first_block_snapshot == get_first_block_snapshot
        early == CheckBurnAndEpoch(op, first_block_snapshot)
    IN  IF early # Ok THEN {early}
        ELSE LET tips == get_block_snapshot(block_header.parent_block_hash)
             IN  IF tips = {} THEN {FatalNoParentSnapshot}
                 ELSE LET chain_tip == CHOOSE t \in tips : TRUE
                          register_key_opt ==
                              get_leader_key_at(leader_key_block_height, op.key_vtxindex,
                                                block_header.fork_segment_id)
                      IN  IF register_key_opt = {} THEN {BlockCommitNoLeaderKey}
                          ELSE {CheckWithKey(op, chain_tip, register_key, parent_block_height) :
                                    register_key \in register_key_opt}

\* A validator that looks the tip up before rule (1).
LeaderBlockCommitOp_check_tip_first(op, block_header, overflow_checks) ==
    IF overflow_checks /\ Underflows(op) THEN {SubtractOverflow}
    ELSE
    LET leader_key_block_height == wrapping_sub(op.block_height, op.key_block_backptr)
        parent_block_height == wrapping_sub(op.block_height, op.parent_block_backptr)
        first_block_snapshot == get_first_block_snapshot
        early == CheckBurnAndEpoch(op, first_block_snapshot)
        tips == get_block_snapshot(block_header.parent_block_hash)
    IN  IF tips = {} THEN {FatalNoParentSnapshot}
        ELSE IF early # Ok THEN {early}
        ELSE LET chain_tip == CHOOSE t \in tips : TRUE
                 register_key_opt ==
                     get_leader_key_at(leader_key_block_height, op.key_vtxindex,
                                       chain_tip.fork_segment_id)
             IN  IF register_key_opt = {} THEN {BlockCommitNoLeaderKey}
                 ELSE {CheckWithKey(op, chain_tip, register_key, parent_block_height) :
                           register_key \in register_key_opt}

\* overflow_checks: whether the build panics on u64 underflow (a debug or test
\* build) or wraps (a release build). The result is the set of verdicts the
\* call can end with: one, unless the key lookup matches several rows.
LeaderBlockCommitOp_check(op, block_header, overflow_checks) ==
    IF overflow_checks /\ Underflows(op) THEN {SubtractOverflow}
    ELSE
    LET leader_key_block_height == wrapping_sub(op.block_height, op.key_block_backptr)
        parent_block_height == wrapping_sub(op.block_height, op.parent_block_backptr)
        first_block_snapshot == get_first_block_snapshot
        early == CheckBurnAndEpoch(op, first_block_snapshot)
    IN  IF early # Ok THEN {early}
        ELSE LET tips == get_block_snapshot(block_header.parent_block_hash)
             IN  IF tips = {} THEN {FatalNoParentSnapshot}
                 ELSE LET chain_tip == CHOOSE t \in tips : TRUE
                          register_key_opt ==
                              get_leader_key_at(leader_key_block_height, op.key_vtxindex,
                                                chain_tip.fork_segment_id)
                      IN  IF register_key_opt = {} THEN {BlockCommitNoLeaderKey}
                          ELSE {CheckWithKey(op, chain_tip, register_key, parent_block_height) :
                                    register_key \in register_key_opt}

-----------------------------------------------------------------------------
\* Block processing: a header is appended to a snapshot of the store, its
\* operations are decoded with the header's height, hash and fork segment,
\* each one is checked against the store as it is at the parent, and the ones
\* for which check returned Ok are inserted.

BurnchainBlockHeader(parent) ==
    LET continues == ~\E s \in snapshots : s.parent_burn_header_hash = parent.burn_header_hash
    IN  [block_height |-> parent.block_height + 1,
         block_hash |-> Cardinality(snapshots),
         parent_block_hash |-> parent.burn_header_hash,
         fork_segment_id |->
             IF continues THEN parent.fork_segment_id
             ELSE Cardinality({s.fork_segment_id : s \in snapshots}),
         parent_fork_segment_id |->
             IF continues THEN parent.parent_fork_segment_id
             ELSE parent.fork_segment_id]

BlockSnapshot(block_header) ==
    [block_height |-> block_header.block_height,
     burn_header_hash |-> block_header.block_hash,
     parent_burn_header_hash |-> block_header.parent_block_hash,
     consensus_hash |-> block_header.block_hash,
     fork_segment_id |-> block_header.fork_segment_id,
     parent_fork_segment_id |-> block_header.parent_fork_segment_id]

\* The records parse_from_tx builds from a transaction at vtxindex of the block.
RegisterFromTx(block_header, vtxindex, consensus_hash, public_key, address_bytes) ==
    [consensus_hash |-> consensus_hash,
     public_key |-> public_key,
     memo |-> <<>>,
     address |-> Address(address_bytes),
     txid |-> <<block_header.block_hash, vtxindex>>,
     vtxindex |-> vtxindex,
     block_height |-> block_header.block_height,
     burn_header_hash |-> block_header.block_hash,
     fork_segment_id |-> block_header.fork_segment_id]

CommitFromTx(block_header, vtxindex, parent_block_backptr, parent_vtxindex, key_block_backptr, key_vtxindex, epoch_num, signer) ==
    [block_header_hash |-> 0,
     new_seed |-> 0,
     parent_block_backptr |-> parent_block_backptr,
     parent_vtxindex |-> parent_vtxindex,
     key_block_backptr |-> key_block_backptr,
     key_vtxindex |-> key_vtxindex,
     epoch_num |-> epoch_num,
     memo |-> <<0>>,
     burn_fee |-> 1,
     input |-> BurnchainSigner(signer),
     txid |-> <<block_header.block_hash, vtxindex>>,
     vtxindex |-> vtxindex,
     block_height |-> block_header.block_height,
     burn_header_hash |-> block_header.block_hash,
     fork_segment_id |-> block_header.fork_segment_id]

\* Range checks that let the key back-pointer reach the block height.
CommitInRange_key_at_height(block_height, parent_block_backptr, parent_vtxindex, key_block_backptr, epoch_num) ==
    /\ parent_block_backptr = 0 => parent_vtxindex = 0
    /\ parent_block_backptr < block_height
    /\ key_block_backptr # 0
    /\ key_block_backptr <= block_height
    /\ epoch_num < block_height

\* Range checks that let the parent back-pointer reach the block height.
CommitInRange_parent_at_height(block_height, parent_block_backptr, parent_vtxindex, key_block_backptr, epoch_num) ==
    /\ parent_block_backptr = 0 => parent_vtxindex = 0
    /\ parent_block_backptr <= block_height
    /\ key_block_backptr # 0
    /\ key_block_backptr < block_height
    /\ epoch_num < block_height

\* Range checks that let the key back-pointer be 0.
CommitInRange_no_key_floor(block_height, parent_block_backptr, parent_vtxindex, key_block_backptr, epoch_num) ==
    /\ parent_block_backptr = 0 => parent_vtxindex = 0
    /\ parent_block_backptr < block_height
    /\ key_block_backptr < block_height
    /\ epoch_num < block_height

\* Range checks that let the epoch number reach the block height.
CommitInRange_epoch_at_height(block_height, parent_block_backptr, parent_vtxindex, key_block_backptr, epoch_num) ==
    /\ parent_block_backptr = 0 => parent_vtxindex = 0
    /\ parent_block_backptr < block_height
    /\ key_block_backptr # 0
    /\ key_block_backptr < block_height
    /\ epoch_num <= block_height

\* The range checks of LeaderBlockCommitOp::parse_from_tx.
CommitInRange(block_height, parent_block_backptr, parent_vtxindex, key_block_backptr, epoch_num) ==
    /\ parent_block_backptr = 0 => parent_vtxindex = 0
    /\ parent_block_backptr < block_height
    /\ key_block_backptr # 0
    /\ key_block_backptr < block_height
    /\ epoch_num < block_height

\* The transactions a block may carry at vtxindex. A registration quotes the
\* consensus hash of the parent snapshot or a hash no snapshot has; the sender of public key n's
\* registration is signer n. A commit points at the slot of a key stored
\* anywhere in the database (on any fork) and is signed by the signer that
\* registered that key; it points at the slot of a commit stored anywhere in
\* the database, or at no parent (0, 0).
RegisterTxs(block_header, vtxindex) ==
    {RegisterFromTx(block_header, vtxindex, ch, pk, pk) :
        ch \in {block_header.parent_block_hash, UnknownBurnHash}, pk \in PublicKeys}

ParentPointers(block_height) ==
    {<<0, 0>>} \cup {<<block_height - c.block_height, c.vtxindex>> : c \in block_commits}

CommitTxs(block_header, vtxindex) ==
    {CommitFromTx(block_header, vtxindex, pp[1], pp[2],
                  block_header.block_height - k.block_height, k.vtxindex,
                  block_header.block_height - FirstBlockHeight, to_bytes(k.address)) :
        pp \in {p \in ParentPointers(block_header.block_height) : p[1] >= 0},
        k \in {key \in leader_keys : key.block_height <= block_header.block_height}}

Txs(block_header, vtxindex) ==
    RegisterTxs(block_header, vtxindex) \cup
    {c \in CommitTxs(block_header, vtxindex) :
        CommitInRange(block_header.block_height, c.parent_block_backptr, c.parent_vtxindex,
                      c.key_block_backptr, c.epoch_num)}

IsRegister(tx) == "public_key" \in DOMAIN tx

Init ==
    /\ snapshots = {[block_height |-> FirstBlockHeight,
                     burn_header_hash |-> FirstBurnHash,
                     parent_burn_header_hash |-> UnknownBurnHash,
                     consensus_hash |-> FirstBurnHash,
                     fork_segment_id |-> 0,
                     parent_fork_segment_id |-> 0]}
    /\ leader_keys = {}
    /\ block_commits = {}
    /\ last = NoCall
    /\ type_map = <<>>

\* The verdicts check can end with for one operation of a block.
OpVerdicts(op, block_header) ==
    IF IsRegister(op) THEN LeaderKeyRegisterOp_check(op, block_header)
    ELSE LeaderBlockCommitOp_check(op, block_header, TRUE)

\* A block processor that folds in-block acceptance: a registration is
\* checked against the store with the keys accepted earlier in the block.
BlockVerdicts_folding(block_header, txs) ==
    [i \in DOMAIN txs |->
        IF /\ IsRegister(txs[i])
           /\ \E j \in 1..(i - 1) :
                 /\ IsRegister(txs[j])
                 /\ txs[j].public_key = txs[i].public_key
                 /\ Ok \in OpVerdicts(txs[j], block_header)
        THEN {LeaderKeyAlreadyRegistered}
        ELSE OpVerdicts(txs[i], block_header)]

\* The block processor of the reference design: every operation of the
\* block is checked against the store at the parent tip.
BlockVerdicts(block_header, txs) ==
    [i \in DOMAIN txs |-> OpVerdicts(txs[i], block_header)]

\* txs: the operations decoded from the block, in vtxindex order.
ProcessBlock(parent, txs) ==
    LET block_header == BurnchainBlockHeader(parent)
        verdicts == BlockVerdicts(block_header, txs)
        accepted_keys ==
            {txs[i] : i \in {j \in DOMAIN txs : IsRegister(txs[j]) /\ Ok \in verdicts[j]}}
        \* a commit whose key lookup matches several rows is accepted or not,
        \* according to the row the lookup returns
        acceptable_commits ==
            {txs[i] : i \in {j \in DOMAIN txs : ~IsRegister(txs[j]) /\ Ok \in verdicts[j]}}
        sure_commits ==
            {txs[i] : i \in {j \in DOMAIN txs : ~IsRegister(txs[j]) /\ verdicts[j] = {Ok}}}
    IN  /\ last = NoCall
        /\ Cardinality(leader_keys \cup accepted_keys) <= MaxLeaderKeys
        /\ \E accepted_commits \in SUBSET acceptable_commits :
              /\ sure_commits \subseteq accepted_commits
              /\ Cardinality(block_commits \cup accepted_commits) <= MaxBlockCommits
              /\ snapshots' = snapshots \cup {BlockSnapshot(block_header)}
              /\ leader_keys' = leader_keys \cup accepted_keys
              /\ block_commits' = block_commits \cup accepted_commits
              /\ last' = last
              /\ type_map' = type_map

\* The blocks appended to parent: up to MaxOpsPerBlock transactions at
\* vtxindex 1, 2, ...
RECURSIVE BlocksOfLen(_, _)
BlocksOfLen(block_header, n) ==
    IF n = 0 THEN {<<>>}
    ELSE {Append(txs, tx) : txs \in BlocksOfLen(block_header, n - 1), tx \in Txs(block_header, n)}

Blocks(parent) ==
    UNION {BlocksOfLen(BurnchainBlockHeader(parent), n) : n \in 0..MaxOpsPerBlock}

Next ==
    \E parent \in snapshots :
        /\ last = NoCall
        /\ Cardinality(snapshots) <= MaxBlocks
        /\ \E txs \in Blocks(parent) : ProcessBlock(parent, txs)

Spec == Init /\ [][Next]_vars

-----------------------------------------------------------------------------
\* Decoding: parse_data and parse_from_tx of both operations, on the bytes of
\* the payload. A BurnchainTransaction is the record of what get_signers(),
\* get_recipients(), opcode(), data(), txid() and vtxindex() return.

InvalidInput == "InvalidInput"
ParseError == "ParseError"
\* Option::None
None == [none |-> TRUE]
\* Result::Err(error) and Result::Ok(op)
Err(error) == [tag |-> "Err", error |-> error]
OkOp(op) == [tag |-> "Ok", op |-> op]

\* Opcodes::LeaderBlockCommit and Opcodes::LeaderKeyRegister as u8.
OpcodeLeaderBlockCommit == 91
OpcodeLeaderKeyRegister == 94
\* The shortest payloads parse_data accepts.
CommitPayloadLen == 77
RegisterPayloadLen == 52

\* The burn address is the address of hash 0.
is_burn(address) == address.bytes = 0

\* data[from..to) of the source, on a 1-based sequence.
Slice(data, from, to) == SubSeq(data, from + 1, to)

\* A reader of two bytes that takes the first byte as the most significant.
parse_u16_from_be_network_order(bytes) == 256 * bytes[1] + bytes[2]

\* A reader of four bytes that takes the first byte as the most significant.
parse_u32_from_be_network_order(bytes) ==
    (2^24) * bytes[1] + (2^16) * bytes[2] + (2^8) * bytes[3] + bytes[4]

\* parse_u16_from_be and parse_u32_from_be, as test_parse pins them: the
\* bytes 40 41 decode to 0x4140 and 62 63 70 71 to 0x71706362.
parse_u16_from_be(bytes) == bytes[1] + 256 * bytes[2]

parse_u32_from_be(bytes) ==
    bytes[1] + (2^8) * bytes[2] + (2^16) * bytes[3] + (2^24) * bytes[4]

\* A decoder of the commit payload that accepts a payload one byte shorter.
LeaderBlockCommitOp_parse_data_short(data) ==
    IF Len(data) < CommitPayloadLen - 1 THEN None
    ELSE [block_header_hash |-> Slice(data, 0, 32),
          new_seed |-> Slice(data, 32, 64),
          parent_block_backptr |-> parse_u16_from_be(Slice(data, 64, 66)),
          parent_vtxindex |-> parse_u16_from_be(Slice(data, 66, 68)),
          key_block_backptr |-> parse_u16_from_be(Slice(data, 68, 70)),
          key_vtxindex |-> parse_u16_from_be(Slice(data, 70, 72)),
          epoch_num |-> parse_u32_from_be(Slice(data, 72, 76)),
          memo |-> Slice(data, 76, Len(data))]

\* A decoder of the commit payload that takes every byte from offset 76 on
\* as memo.
LeaderBlockCommitOp_parse_data_whole_memo(data) ==
    IF Len(data) < CommitPayloadLen THEN None
    ELSE [block_header_hash |-> Slice(data, 0, 32),
          new_seed |-> Slice(data, 32, 64),
          parent_block_backptr |-> parse_u16_from_be(Slice(data, 64, 66)),
          parent_vtxindex |-> parse_u16_from_be(Slice(data, 66, 68)),
          key_block_backptr |-> parse_u16_from_be(Slice(data, 68, 70)),
          key_vtxindex |-> parse_u16_from_be(Slice(data, 70, 72)),
          epoch_num |-> parse_u32_from_be(Slice(data, 72, 76)),
          memo |-> Slice(data, 76, Len(data))]

\* LeaderBlockCommitOp::parse_data
LeaderBlockCommitOp_parse_data(data) ==
    IF Len(data) < CommitPayloadLen THEN None
    ELSE [block_header_hash |-> Slice(data, 0, 32),
          new_seed |-> Slice(data, 32, 64),
          parent_block_backptr |-> parse_u16_from_be(Slice(data, 64, 66)),
          parent_vtxindex |-> parse_u16_from_be(Slice(data, 66, 68)),
          key_block_backptr |-> parse_u16_from_be(Slice(data, 68, 70)),
          key_vtxindex |-> parse_u16_from_be(Slice(data, 70, 72)),
          epoch_num |-> parse_u32_from_be(Slice(data, 72, 76)),
          memo |-> Slice(data, 76, 77)]

\* VRFPublicKey::from_bytes: None on bytes that encode no curve point; the
\* encoding that starts with byte 255 stands for those.
VRFPublicKey_from_bytes(bytes) == IF bytes[1] = 255 THEN None ELSE [bytes |-> bytes]

\* LeaderKeyRegisterOp::parse_data
LeaderKeyRegisterOp_parse_data(data) ==
    IF Len(data) < RegisterPayloadLen THEN None
    ELSE LET pubkey == VRFPublicKey_from_bytes(Slice(data, 20, 52))
         IN  IF pubkey = None THEN None
             ELSE [consensus_hash |-> Slice(data, 0, 20),
                   public_key |-> pubkey,
                   memo |-> Slice(data, 52, Len(data))]

\* LeaderBlockCommitOp::parse_from_tx with the tests of the opcode and of the
\* burn output exchanged.
LeaderBlockCommitOp_parse_from_tx_burn_first(block_height, fork_segment_id, block_hash, tx) ==
    LET inputs == tx.signers
        outputs == tx.recipients
        data == LeaderBlockCommitOp_parse_data(tx.data)
    IN  IF Len(inputs) = 0 THEN Err(InvalidInput)
        ELSE IF Len(outputs) = 0 THEN Err(InvalidInput)
        ELSE IF ~is_burn(outputs[1].address) THEN Err(ParseError)
        ELSE IF outputs[1].amount = 0 THEN Err(ParseError)
        ELSE IF tx.opcode # OpcodeLeaderBlockCommit THEN Err(InvalidInput)
        ELSE IF data = None THEN Err(ParseError)
        ELSE IF ~CommitInRange(block_height, data.parent_block_backptr, data.parent_vtxindex, data.key_block_backptr, data.epoch_num) THEN Err(ParseError)
        ELSE OkOp([block_header_hash |-> data.block_header_hash,
                   new_seed |-> data.new_seed,
                   parent_block_backptr |-> data.parent_block_backptr,
                   parent_vtxindex |-> data.parent_vtxindex,
                   key_block_backptr |-> data.key_block_backptr,
                   key_vtxindex |-> data.key_vtxindex,
                   epoch_num |-> data.epoch_num,
                   memo |-> data.memo,
                   burn_fee |-> outputs[1].amount,
                   input |-> inputs[1],
                   txid |-> tx.txid,
                   vtxindex |-> tx.vtxindex,
                   block_height |-> block_height,
                   burn_header_hash |-> block_hash,
                   fork_segment_id |-> fork_segment_id])

\* LeaderBlockCommitOp::parse_from_tx without the test of the burn output.
LeaderBlockCommitOp_parse_from_tx_any_output(block_height, fork_segment_id, block_hash, tx) ==
    LET inputs == tx.signers
        outputs == tx.recipients
        data == LeaderBlockCommitOp_parse_data(tx.data)
    IN  IF Len(inputs) = 0 THEN Err(InvalidInput)
        ELSE IF Len(outputs) = 0 THEN Err(InvalidInput)
        ELSE IF tx.opcode # OpcodeLeaderBlockCommit THEN Err(InvalidInput)
        ELSE IF data = None THEN Err(ParseError)
        ELSE IF ~CommitInRange(block_height, data.parent_block_backptr, data.parent_vtxindex, data.key_block_backptr, data.epoch_num) THEN Err(ParseError)
        ELSE OkOp([block_header_hash |-> data.block_header_hash,
                   new_seed |-> data.new_seed,
                   parent_block_backptr |-> data.parent_block_backptr,
                   parent_vtxindex |-> data.parent_vtxindex,
                   key_block_backptr |-> data.key_block_backptr,
                   key_vtxindex |-> data.key_vtxindex,
                   epoch_num |-> data.epoch_num,
                   memo |-> data.memo,
                   burn_fee |-> outputs[1].amount,
                   input |-> inputs[1],
                   txid |-> tx.txid,
                   vtxindex |-> tx.vtxindex,
                   block_height |-> block_height,
                   burn_header_hash |-> block_hash,
                   fork_segment_id |-> fork_segment_id])

\* LeaderBlockCommitOp::parse_from_tx that takes the last input as the
\* signer of the record.
LeaderBlockCommitOp_parse_from_tx_last_input(block_height, fork_segment_id, block_hash, tx) ==
    LET inputs == tx.signers
        outputs == tx.recipients
        data == LeaderBlockCommitOp_parse_data(tx.data)
    IN  IF Len(inputs) = 0 THEN Err(InvalidInput)
        ELSE IF Len(outputs) = 0 THEN Err(InvalidInput)
        ELSE IF tx.opcode # OpcodeLeaderBlockCommit THEN Err(InvalidInput)
        ELSE IF ~is_burn(outputs[1].address) THEN Err(ParseError)
        ELSE IF outputs[1].amount = 0 THEN Err(ParseError)
        ELSE IF data = None THEN Err(ParseError)
        ELSE IF ~CommitInRange(block_height, data.parent_block_backptr, data.parent_vtxindex, data.key_block_backptr, data.epoch_num) THEN Err(ParseError)
        ELSE OkOp([block_header_hash |-> data.block_header_hash,
                   new_seed |-> data.new_seed,
                   parent_block_backptr |-> data.parent_block_backptr,
                   parent_vtxindex |-> data.parent_vtxindex,
                   key_block_backptr |-> data.key_block_backptr,
                   key_vtxindex |-> data.key_vtxindex,
                   epoch_num |-> data.epoch_num,
                   memo |-> data.memo,
                   burn_fee |-> outputs[1].amount,
                   input |-> inputs[Len(inputs)],
                   txid |-> tx.txid,
                   vtxindex |-> tx.vtxindex,
                   block_height |-> block_height,
                   burn_header_hash |-> block_hash,
                   fork_segment_id |-> fork_segment_id])

\* LeaderBlockCommitOp::parse_from_tx
LeaderBlockCommitOp_parse_from_tx(block_height, fork_segment_id, block_hash, tx) ==
    LET inputs == tx.signers
        outputs == tx.recipients
        data == LeaderBlockCommitOp_parse_data(tx.data)
    IN  IF Len(inputs) = 0 THEN Err(InvalidInput)
        ELSE IF Len(outputs) = 0 THEN Err(InvalidInput)
        ELSE IF tx.opcode # OpcodeLeaderBlockCommit THEN Err(InvalidInput)
        ELSE IF ~is_burn(outputs[1].address) THEN Err(ParseError)
        ELSE IF outputs[1].amount = 0 THEN Err(ParseError)
        ELSE IF data = None THEN Err(ParseError)
        ELSE IF ~CommitInRange(block_height, data.parent_block_backptr, data.parent_vtxindex, data.key_block_backptr, data.epoch_num) THEN Err(ParseError)
        ELSE OkOp([block_header_hash |-> data.block_header_hash,
                   new_seed |-> data.new_seed,
                   parent_block_backptr |-> data.parent_block_backptr,
                   parent_vtxindex |-> data.parent_vtxindex,
                   key_block_backptr |-> data.key_block_backptr,
                   key_vtxindex |-> data.key_vtxindex,
                   epoch_num |-> data.epoch_num,
                   memo |-> data.memo,
                   burn_fee |-> outputs[1].amount,
                   input |-> inputs[1],
                   txid |-> tx.txid,
                   vtxindex |-> tx.vtxindex,
                   block_height |-> block_height,
                   burn_header_hash |-> block_hash,
                   fork_segment_id |-> fork_segment_id])

\* LeaderBlockCommitOp::from_tx
LeaderBlockCommitOp_from_tx(block_header, tx) ==
    LeaderBlockCommitOp_parse_from_tx(block_header.block_height, block_header.fork_segment_id, block_header.block_hash, tx)

\* LeaderKeyRegisterOp::parse_from_tx with a test that the first output is
\* not the burn address.
LeaderKeyRegisterOp_parse_from_tx_payment_sink(block_height, fork_segment_id, block_hash, tx) ==
    LET inputs == tx.signers
        outputs == tx.recipients
        data == LeaderKeyRegisterOp_parse_data(tx.data)
    IN  IF Len(inputs) = 0 THEN Err(InvalidInput)
        ELSE IF Len(outputs) < 1 THEN Err(InvalidInput)
        ELSE IF tx.opcode # OpcodeLeaderKeyRegister THEN Err(InvalidInput)
        ELSE IF is_burn(outputs[1].address) THEN Err(ParseError)
        ELSE IF data = None THEN Err(ParseError)
        ELSE OkOp([consensus_hash |-> data.consensus_hash,
                   public_key |-> data.public_key,
                   memo |-> data.memo,
                   address |-> outputs[1].address,
                   txid |-> tx.txid,
                   vtxindex |-> tx.vtxindex,
                   block_height |-> block_height,
                   burn_header_hash |-> block_hash,
                   fork_segment_id |-> fork_segment_id])

\* LeaderKeyRegisterOp::parse_from_tx
LeaderKeyRegisterOp_parse_from_tx(block_height, fork_segment_id, block_hash, tx) ==
    LET inputs == tx.signers
        outputs == tx.recipients
        data == LeaderKeyRegisterOp_parse_data(tx.data)
    IN  IF Len(inputs) = 0 THEN Err(InvalidInput)
        ELSE IF Len(outputs) < 1 THEN Err(InvalidInput)
        ELSE IF tx.opcode # OpcodeLeaderKeyRegister THEN Err(InvalidInput)
        ELSE IF data = None THEN Err(ParseError)
        ELSE OkOp([consensus_hash |-> data.consensus_hash,
                   public_key |-> data.public_key,
                   memo |-> data.memo,
                   address |-> outputs[1].address,
                   txid |-> tx.txid,
                   vtxindex |-> tx.vtxindex,
                   block_height |-> block_height,
                   burn_header_hash |-> block_hash,
                   fork_segment_id |-> fork_segment_id])

\* LeaderKeyRegisterOp::from_tx
LeaderKeyRegisterOp_from_tx(block_header, tx) ==
    LeaderKeyRegisterOp_parse_from_tx(block_header.block_height, block_header.fork_segment_id, block_header.block_hash, tx)

-----------------------------------------------------------------------------
\* The transactions and headers from_tx is called on.

\* Longest payload of a transaction.
MaxPayloadLen == 80
\* block_height of test_parse (0x71706363).
TestBlockHeight == 1903190883

BurnchainTransaction(signers, recipients, opcode, data) ==
    [signers |-> signers, recipients |-> recipients, opcode |-> opcode,
     data |-> data, txid |-> 0, vtxindex |-> 1]

BurnchainRecipient(address_bytes, amount) ==
    [address |-> Address(address_bytes), amount |-> amount]

\* The header of test_parse at a height.
ParseHeader(block_height) ==
    [block_height |-> block_height, block_hash |-> 0, parent_block_hash |-> 0,
     fork_segment_id |-> 0, parent_fork_segment_id |-> 0]

ParseHeights == {0, 1, 2, 3, 257, TestBlockHeight}

\* The headers from_tx is called with: every height, and at the height of
\* test_parse every block hash and fork segment of a small set.
ParseHeaders ==
    {ParseHeader(block_height) : block_height \in ParseHeights} \cup
    {[ParseHeader(TestBlockHeight) EXCEPT !.block_hash = block_hash, !.fork_segment_id = segment] :
        block_hash \in {0, 1}, segment \in {0, 1}}

\* Bytes 64..76 of the valid fixture of test_parse: 4041 4243 5051 6061 62637071.
TestFields == <<64, 65, 66, 67, 80, 81, 96, 97, 98, 99, 112, 113>>
\* Bytes 64..76 of a commit whose parent is the genesis block, key one block back.
SmallFields == <<0, 0, 0, 0, 1, 0, 1, 0, 0, 0, 0, 0>>
U16Bytes == {<<0, 0>>, <<1, 0>>, <<0, 1>>, <<2, 0>>}
U32Bytes == {<<0, 0, 0, 0>>, <<1, 0, 0, 0>>, <<2, 0, 0, 0>>, <<0, 0, 0, 1>>}
FieldBytes ==
    {TestFields} \cup
    {a \o b \o c \o d \o e : a \in U16Bytes, b \in U16Bytes, c \in U16Bytes, d \in U16Bytes, e \in U32Bytes}

\* The first n bytes of a commit payload laid out as the fixture is: 32 bytes
\* 0x22, 32 bytes 0x33, the integer fields, then memo bytes 0x80.
CommitPayload(fields, n) ==
    [i \in 1..n |-> IF i <= 32 THEN 34 ELSE IF i <= 64 THEN 51 ELSE IF i <= 76 THEN fields[i - 64] ELSE 128]

\* The first n bytes of a register payload: 20 bytes 0x22 of consensus hash,
\* 32 bytes of key, then the memo 01 02 03 ...
RegisterPayload(key_byte, n) ==
    [i \in 1..n |-> IF i <= 20 THEN 34 ELSE IF i <= 52 THEN key_byte ELSE i - 52]

SignerLists == {<<>>, <<BurnchainSigner(1)>>, <<BurnchainSigner(2), BurnchainSigner(1)>>}

RecipientLists ==
    {<<>>,
     <<BurnchainRecipient(0, 12345)>>,
     <<BurnchainRecipient(0, 0)>>,
     <<BurnchainRecipient(1, 12345)>>,
     <<BurnchainRecipient(0, 1), BurnchainRecipient(1, 5)>>,
     <<BurnchainRecipient(1, 5), BurnchainRecipient(0, 1)>>}

TxOpcodes == {OpcodeLeaderBlockCommit, OpcodeLeaderBlockCommit + 1, OpcodeLeaderKeyRegister}

\* The transaction under every txid and vtxindex of a small set.
TxidVariants(tx) == {[tx EXCEPT !.txid = txid, !.vtxindex = vtxindex] : txid \in {0, 1}, vtxindex \in {1, 2}}

\* Commit transactions: every layout of the integer fields in a well-formed
\* transaction, every payload length, and every shape of inputs, outputs and
\* opcode around a good, a short and an out-of-range payload.
FromTxCommitTxs ==
    {BurnchainTransaction(<<BurnchainSigner(1)>>, <<BurnchainRecipient(0, 12345)>>, OpcodeLeaderBlockCommit, CommitPayload(f, CommitPayloadLen)) : f \in FieldBytes}
    \cup {BurnchainTransaction(<<BurnchainSigner(1)>>, <<BurnchainRecipient(0, 12345)>>, OpcodeLeaderBlockCommit, CommitPayload(f, n)) : f \in {TestFields, SmallFields}, n \in 0..MaxPayloadLen}
    \cup {BurnchainTransaction(signers, recipients, opcode, CommitPayload(f, n)) : signers \in SignerLists, recipients \in RecipientLists, opcode \in TxOpcodes, f \in {SmallFields, TestFields}, n \in {CommitPayloadLen - 1, CommitPayloadLen}}
    \cup TxidVariants(BurnchainTransaction(<<BurnchainSigner(1)>>, <<BurnchainRecipient(0, 12345)>>, OpcodeLeaderBlockCommit, CommitPayload(SmallFields, CommitPayloadLen)))

\* Register transactions: every payload length with a key that decodes and
\* one that does not, and every shape of inputs, outputs and opcode.
FromTxRegisterTxs ==
    {BurnchainTransaction(<<BurnchainSigner(1)>>, <<BurnchainRecipient(1, 12345)>>, OpcodeLeaderKeyRegister, RegisterPayload(key_byte, n)) : key_byte \in {1, 2, 255}, n \in 0..MaxPayloadLen}
    \cup {BurnchainTransaction(signers, recipients, opcode, RegisterPayload(key_byte, n)) : signers \in SignerLists, recipients \in RecipientLists, opcode \in TxOpcodes, key_byte \in {1, 255}, n \in {RegisterPayloadLen - 1, RegisterPayloadLen, RegisterPayloadLen + 5}}
    \cup TxidVariants(BurnchainTransaction(<<BurnchainSigner(1)>>, <<BurnchainRecipient(1, 12345)>>, OpcodeLeaderKeyRegister, RegisterPayload(1, RegisterPayloadLen)))

-----------------------------------------------------------------------------
\* Calls of check on any record, however it was built: the call reads the
\* store and returns; the caller then drops the result.

\* A header whose parent_block_hash names parent_hash.
HeaderOn(parent_hash) ==
    IF get_block_snapshot(parent_hash) # {} THEN BurnchainBlockHeader(Snapshot(parent_hash))
    ELSE [block_height |-> FirstBlockHeight + 1,
          block_hash |-> Cardinality(snapshots),
          parent_block_hash |-> parent_hash,
          fork_segment_id |-> 0,
          parent_fork_segment_id |-> 0]

ParentHashes == {s.burn_header_hash : s \in snapshots} \cup {UnknownBurnHash}

CommitOps(block_header) ==
    {[CommitFromTx(block_header, 1, pb, pv, kb, kv, e, sg)
         EXCEPT !.burn_fee = fee, !.block_height = h] :
        pb \in 0..MaxBackptr, pv \in 0..1, kb \in 0..MaxBackptr, kv \in Vtxindexes,
        e \in {0, block_header.block_height - FirstBlockHeight}, sg \in AddressBytes,
        fee \in {0, 1}, h \in {0, FirstBlockHeight, block_header.block_height}}

\* The fields LeaderKeyRegisterOp::check does not read, changed one at a time.
RegisterVariants(op) ==
    {op,
     [op EXCEPT !.memo = <<1>>],
     [op EXCEPT !.address = Address(IF op.address.bytes = 1 THEN NumAddresses ELSE 1)],
     [op EXCEPT !.txid = <<UnknownBurnHash, 0>>],
     [op EXCEPT !.vtxindex = op.vtxindex + 1],
     [op EXCEPT !.block_height = 0]}

RegisterOps(block_header) ==
    UNION {RegisterVariants(RegisterFromTx(block_header, 1, ch, pk, pk)) :
              ch \in ParentHashes, pk \in PublicKeys}

\* A call of check that stores the record it accepts.
CheckLeaderBlockCommit_store_accepted(op, block_header, overflow_checks) ==
    /\ last = NoCall
    /\ \E result \in LeaderBlockCommitOp_check(op, block_header, overflow_checks) :
          /\ last' = [kind |-> "commit", op |-> op, header |-> block_header,
                      overflow_checks |-> overflow_checks, result |-> result]
          /\ block_commits' = IF result = Ok THEN block_commits \cup {op} ELSE block_commits
    /\ UNCHANGED <<snapshots, leader_keys, type_map>>

CheckLeaderBlockCommit(op, block_header, overflow_checks) ==
    /\ last = NoCall
    /\ \E result \in LeaderBlockCommitOp_check(op, block_header, overflow_checks) :
          last' = [kind |-> "commit", op |-> op, header |-> block_header,
                   overflow_checks |-> overflow_checks, result |-> result]
    /\ UNCHANGED <<snapshots, leader_keys, block_commits, type_map>>

CheckLeaderKeyRegister(op, block_header) ==
    /\ last = NoCall
    /\ \E result \in LeaderKeyRegisterOp_check(op, block_header) :
          last' = [kind |-> "register", op |-> op, header |-> block_header, result |-> result]
    /\ UNCHANGED <<snapshots, leader_keys, block_commits, type_map>>

Return ==
    /\ last # NoCall
    /\ last' = NoCall
    /\ UNCHANGED <<snapshots, leader_keys, block_commits, type_map>>

NextCheck ==
    \/ /\ last = NoCall
       /\ Cardinality(snapshots) <= MaxCheckedBlocks
       /\ \E parent \in snapshots : \E txs \in Blocks(parent) : ProcessBlock(parent, txs)
    \/ /\ last = NoCall
       /\ \E parent_hash \in ParentHashes :
             \E op \in CommitOps(HeaderOn(parent_hash)), overflow_checks \in BOOLEAN :
                 CheckLeaderBlockCommit(op, HeaderOn(parent_hash), overflow_checks)
    \/ /\ last = NoCall
       /\ \E parent_hash \in ParentHashes :
             \E op \in RegisterOps(HeaderOn(parent_hash)) :
                 CheckLeaderKeyRegister(op, HeaderOn(parent_hash))
    \/ Return

SpecCheck == Init /\ [][NextCheck]_vars

-----------------------------------------------------------------------------
\* Calls of from_tx. The call reads no store; `last` records its arguments
\* and what it returned.

FromTxLeaderBlockCommit(block_header, tx) ==
    /\ last = NoCall
    /\ last' = [kind |-> "commit_from_tx", tx |-> tx, header |-> block_header,
                result |-> LeaderBlockCommitOp_from_tx(block_header, tx)]
    /\ UNCHANGED <<snapshots, leader_keys, block_commits, type_map>>

FromTxLeaderKeyRegister(block_header, tx) ==
    /\ last = NoCall
    /\ last' = [kind |-> "register_from_tx", tx |-> tx, header |-> block_header,
                result |-> LeaderKeyRegisterOp_from_tx(block_header, tx)]
    /\ UNCHANGED <<snapshots, leader_keys, block_commits, type_map>>

NextParse ==
    \/ /\ last = NoCall
       /\ \E block_header \in ParseHeaders, tx \in FromTxCommitTxs :
             FromTxLeaderBlockCommit(block_header, tx)
    \/ /\ last = NoCall
       /\ \E block_header \in ParseHeaders, tx \in FromTxRegisterTxs :
             FromTxLeaderKeyRegister(block_header, tx)
    \/ Return

SpecParse == Init /\ [][NextParse]_vars

\* Calls of from_tx and of check, in any state of the store.
NextCalls ==
    \/ NextCheck
    \/ /\ last = NoCall
       /\ \E block_header \in ParseHeaders, tx \in FromTxCommitTxs :
             FromTxLeaderBlockCommit(block_header, tx)
    \/ /\ last = NoCall
       /\ \E block_header \in ParseHeaders, tx \in FromTxRegisterTxs :
             FromTxLeaderKeyRegister(block_header, tx)

SpecCalls == Init /\ [][NextCalls]_vars

-----------------------------------------------------------------------------
\* Properties of the store (specification Spec).

\* The rows of a table that sit in the blocks tip descends from, tip included.
OnForkOf(rows, tip) ==
    {r \in rows : r.burn_header_hash \in AncestorBlocks(tip.burn_header_hash)}

\* C1: on every fork (the chain of blocks from the first snapshot to a tip) no
\* two accepted LeaderKeyRegisterOps carry the same public_key, two
\* registrations carried by one block included.
C1_UniqueKeyPerFork ==
    \A tip \in snapshots :
        \A k1, k2 \in OnForkOf(leader_keys, tip) :
            k1.public_key = k2.public_key => k1 = k2

\* C2: on every fork at most one accepted LeaderBlockCommitOp consumes a given
\* accepted leader key, two commits carried by one block included.
C2_KeySingleUsePerFork ==
    \A tip \in snapshots :
        \A k \in OnForkOf(leader_keys, tip) :
            \A c1, c2 \in OnForkOf(block_commits, tip) :
                Consumes(c1, k) /\ Consumes(c2, k) => c1 = c2

\* C5: every accepted commit builds on no parent (0, 0) or on an accepted
\* commit at (block_height - parent_block_backptr, parent_vtxindex) that sits
\* in a block its own block descends from.
C5_ParentOnSameFork ==
    \A c \in block_commits :
        \/ c.parent_block_backptr = 0 /\ c.parent_vtxindex = 0
        \/ \E parent \in block_commits :
              /\ parent.block_height = c.block_height - c.parent_block_backptr
              /\ parent.vtxindex = c.parent_vtxindex
              /\ parent.burn_header_hash \in AncestorBlocks(c.burn_header_hash)

\* The commits a block appended to tip may carry at vtxindex 1.
CommitsOn(tip) ==
    {c \in CommitTxs(BurnchainBlockHeader(tip), 1) :
        CommitInRange(c.block_height, c.parent_block_backptr, c.parent_vtxindex,
                      c.key_block_backptr, c.epoch_num)}

\* C6: a commit checked on a tip pairs only with a key registered in a block
\* the tip descends from; when the slot it points at holds a key only on a
\* sibling fork, or only in the part of an ancestor segment after the branch
\* point, check returns BlockCommitNoLeaderKey.
C6_KeyLookupForkScoped ==
    \A tip \in snapshots :
        \A c \in CommitsOn(tip) :
            (\A k \in OnForkOf(leader_keys, tip) : ~Consumes(c, k))
                => LeaderBlockCommitOp_check(c, BurnchainBlockHeader(tip), TRUE)
                       = {BlockCommitNoLeaderKey}

Segments == {s.fork_segment_id : s \in snapshots}

\* C9: a key accepted on fork segment S is not seen by has_VRF_public_key on
\* any segment that is not on the ancestor walk of S, so that activity on one
\* fork does not affect validation on a sibling fork.
C9_UnseenOffAncestorWalk ==
    \A k \in leader_keys :
        \A seg \in Segments :
            seg \notin AncestorSegments(k.fork_segment_id)
                => ~has_VRF_public_key(k.public_key, seg)

\* Once the key is consumed as of a snapshot (its height, on its segment), it
\* is consumed as of every snapshot at that height or above on the same
\* segment or on a segment that descends from it, in this state and in the
\* next.
ConsumptionPersists ==
    \A k \in leader_keys, tip \in snapshots :
        is_leader_key_consumed(tip.block_height, k, tip.fork_segment_id) =>
            /\ \A later \in snapshots :
                  (/\ tip.fork_segment_id \in AncestorSegments(later.fork_segment_id)
                   /\ later.block_height >= tip.block_height)
                      => is_leader_key_consumed(later.block_height, k, later.fork_segment_id)
            /\ \A later \in snapshots' :
                  (/\ tip.fork_segment_id \in AncestorSegments(later.fork_segment_id)'
                   /\ later.block_height >= tip.block_height)
                      => is_leader_key_consumed(later.block_height, k, later.fork_segment_id)'

\* No commit that points at a key consumed as of the tip passes check there.
ConsumedKeyRejected ==
    \A tip \in snapshots :
        \A k \in leader_keys :
            is_leader_key_consumed(tip.block_height, k, tip.fork_segment_id) =>
                \A c \in CommitsOn(tip) :
                    Consumes(c, k) =>
                        Ok \notin LeaderBlockCommitOp_check(c, BurnchainBlockHeader(tip), TRUE)

\* C10: consumption of a leader key is monotone along a fork: once
\* is_leader_key_consumed holds at a height on a segment it holds at every
\* later height there and on every descendant segment, for ever, and no
\* later commit on those forks that references the key passes check.
C10_MonotoneConsumption ==
    [][ConsumptionPersists]_vars /\ []ConsumedKeyRejected

\* A key consumed by a commit in one block is still consumed at a later block
\* that descends from the commit's block on another segment.
C10_Witness ==
    \E k \in leader_keys, c \in block_commits, tip \in snapshots :
        /\ Consumes(c, k)
        /\ c.burn_header_hash \in AncestorBlocks(tip.burn_header_hash)
        /\ tip.fork_segment_id # c.fork_segment_id
        /\ is_leader_key_consumed(tip.block_height, k, tip.fork_segment_id)
        /\ \E c2 \in CommitsOn(tip) : Consumes(c2, k)

-----------------------------------------------------------------------------
\* Properties of one call of check (specification SpecCheck).

\* The snapshot the header of the last call names as its parent.
LastTip == Snapshot(last.header.parent_block_hash)
LastTipKnown == get_block_snapshot(last.header.parent_block_hash) # {}

\* Rules (1) to (4) of the commit validator, in order.
EarlyRule(op) ==
    LET first == get_first_block_snapshot.block_height
    IN  IF op.burn_fee = 0 THEN BlockCommitBadInput
        ELSE IF op.block_height < first THEN BlockCommitPredatesGenesis
        ELSE IF op.epoch_num # op.block_height - first THEN BlockCommitBadEpoch
        ELSE IF op.key_block_backptr = 0 THEN BlockCommitNoLeaderKey
        ELSE Ok

\* The keys at the slot the commit points at, on the fork of the tip.
KeysAtSlot(op, tip) ==
    get_leader_key_at(op.block_height - op.key_block_backptr, op.key_vtxindex,
                      tip.fork_segment_id)

\* The recorded check of a commit went past the subtractions, rules (1) to
\* (4) and the lookup of the tip.
ReachedKeyLookup ==
    /\ last.kind = "commit"
    /\ ~(last.overflow_checks /\ Underflows(last.op))
    /\ EarlyRule(last.op) = Ok
    /\ LastTipKnown

KeyConsumed(key, tip) ==
    is_leader_key_consumed(tip.block_height, key, tip.fork_segment_id)

ParentMissing(op, tip) ==
    \/ op.parent_block_backptr = 0 /\ op.parent_vtxindex # 0
    \/ /\ op.parent_block_backptr # 0
       /\ get_block_commit_at(op.block_height - op.parent_block_backptr, op.parent_vtxindex,
                              tip.fork_segment_id) = {}

WrongSigner(op, key) == to_address_bits(op.input) # to_bytes(key.address)

\* Rules (7) to (9), in order, for the key the lookup of rule (6) returned.
LateRule(op, tip, key) ==
    IF KeyConsumed(key, tip) THEN BlockCommitLeaderKeyAlreadyUsed
    ELSE IF ParentMissing(op, tip) THEN BlockCommitNoParent
    ELSE IF WrongSigner(op, key) THEN BlockCommitBadInput
    ELSE Ok

\* The verdict of the first rule that fails, Ok when none does.
FirstFailingRule(op, tip) ==
    IF EarlyRule(op) # Ok THEN {EarlyRule(op)}
    ELSE IF KeysAtSlot(op, tip) = {} THEN {BlockCommitNoLeaderKey}
    ELSE {LateRule(op, tip, key) : key \in KeysAtSlot(op, tip)}

C4_RegisterVerdict ==
    (last.kind = "register" /\ LastTipKnown) =>
        /\ last.result =
              IF has_VRF_public_key(last.op.public_key, LastTip.fork_segment_id)
              THEN LeaderKeyAlreadyRegistered
              ELSE IF ~is_fresh_consensus_hash(LastTip.block_height, ConsensusHashLifetime,
                                               last.op.consensus_hash, LastTip.fork_segment_id)
              THEN LeaderKeyBadConsensusHash
              ELSE Ok
        /\ \A op \in RegisterVariants(last.op) :
              LeaderKeyRegisterOp_check(op, last.header) = {last.result}

\* A registration of a registered key with a stale consensus hash was
\* rejected with LeaderKeyAlreadyRegistered.
C4_Witness ==
    /\ last.kind = "register"
    /\ LastTipKnown
    /\ has_VRF_public_key(last.op.public_key, LastTip.fork_segment_id)
    /\ ~is_fresh_consensus_hash(LastTip.block_height, ConsensusHashLifetime,
                                last.op.consensus_hash, LastTip.fork_segment_id)
    /\ last.op.memo # <<>>
    /\ last.result = LeaderKeyAlreadyRegistered

\* C7: every commit for which check returns Ok is signed by the signer whose
\* address bits equal the address bytes of a key found at the slot it points
\* at; a commit whose signer hashes to other bytes is not accepted.
C7_SignerBinding ==
    (last.kind = "commit" /\ last.result = Ok) =>
        /\ LastTipKnown
        /\ \E key \in KeysAtSlot(last.op, LastTip) :
              to_address_bits(last.op.input) = to_bytes(key.address)

\* A commit passed check at a slot that holds a key.
C7_Witness ==
    /\ last.kind = "commit"
    /\ last.result = Ok
    /\ KeysAtSlot(last.op, LastTip) # {}

\* The height and epoch part of C8, for the last call, when aborted tells
\* whether the call ended at the subtraction before any rule.
EpochRule(aborted) ==
    LET op == last.op
        first == get_first_block_snapshot.block_height
    IN  /\ last.result = Ok =>
              (op.block_height >= first /\ op.epoch_num = op.block_height - first)
        /\ (op.burn_fee # 0 /\ op.block_height < first /\ ~aborted)
              => last.result = BlockCommitPredatesGenesis
        /\ (/\ op.burn_fee # 0
            /\ op.block_height >= first
            /\ op.epoch_num # op.block_height - first
            /\ ~aborted)
              => last.result = BlockCommitBadEpoch

-----------------------------------------------------------------------------
\* Properties of from_tx, on the call recorded in `last`.

IsErr(result, error) == result.tag = "Err" /\ result.error = error
IsOk(result) == result.tag = "Ok"

\* The transaction passes the three InvalidInput tests of parse_from_tx.
ShapeOk(tx, opcode) ==
    /\ Len(tx.signers) > 0
    /\ Len(tx.recipients) > 0
    /\ tx.opcode = opcode

\* The first output burns a positive amount.
BurnOk(tx) == is_burn(tx.recipients[1].address) /\ tx.recipients[1].amount > 0

\* The integer fields of a commit payload satisfy the range checks at the
\* height, read first byte least significant.
FieldsInRange(data, block_height) ==
    LET u16(i) == data[i + 1] + 256 * data[i + 2]
        u32(i) == data[i + 1] + 256 * data[i + 2] + 65536 * data[i + 3] + 16777216 * data[i + 4]
    IN  /\ u16(64) = 0 => u16(66) = 0
        /\ u16(64) < block_height
        /\ u16(68) >= 1
        /\ u16(68) < block_height
        /\ u32(72) < block_height

\* C15: a register payload shorter than 52 bytes and a commit payload shorter
\* than 77 bytes make parse_data return None, so from_tx never returns Ok on
\* them and returns ParseError once the transaction has passed the
\* InvalidInput tests (and, for a commit, the burn-output tests); a payload
\* of exactly 52 (77) bytes with otherwise valid content is accepted.
C15_UnderLengthPayload ==
    /\ last.kind = "register_from_tx" =>
          LET data == last.tx.data
          IN  /\ Len(data) < 52 =>
                    /\ LeaderKeyRegisterOp_parse_data(data) = None
                    /\ ~IsOk(last.result)
                    /\ ShapeOk(last.tx, OpcodeLeaderKeyRegister) => IsErr(last.result, ParseError)
              /\ (Len(data) = 52 /\ ShapeOk(last.tx, OpcodeLeaderKeyRegister) /\ data[21] # 255) =>
                    /\ LeaderKeyRegisterOp_parse_data(data) # None
                    /\ IsOk(last.result)
    /\ last.kind = "commit_from_tx" =>
          LET data == last.tx.data
          IN  /\ Len(data) < 77 =>
                    /\ LeaderBlockCommitOp_parse_data(data) = None
                    /\ ~IsOk(last.result)
                    /\ ShapeOk(last.tx, OpcodeLeaderBlockCommit) => IsErr(last.result, ParseError)
              /\ (/\ Len(data) = 77
                  /\ ShapeOk(last.tx, OpcodeLeaderBlockCommit)
                  /\ BurnOk(last.tx)
                  /\ FieldsInRange(data, last.header.block_height)) =>
                    /\ LeaderBlockCommitOp_parse_data(data) # None
                    /\ IsOk(last.result)

\* A commit transaction that passes every test before the decoder, with a
\* payload of 76 bytes, ends in ParseError.
C15_Witness ==
    /\ last.kind = "commit_from_tx"
    /\ Len(last.tx.data) = 76
    /\ ShapeOk(last.tx, OpcodeLeaderBlockCommit)
    /\ BurnOk(last.tx)
    /\ IsErr(last.result, ParseError)

\* C16: the commit decoder reads every multi-byte integer field big-endian:
\* for every payload of at least 77 bytes, parent_block_backptr is
\* 256*data[64] + data[65], likewise parent_vtxindex from data[66..68],
\* key_block_backptr from data[68..70], key_vtxindex from data[70..72], and
\* epoch_num is data[72]*2^24 + data[73]*2^16 + data[74]*2^8 + data[75].
C16_BigEndianFields ==
    (last.kind = "commit_from_tx" /\ Len(last.tx.data) >= 77) =>
        LET data == last.tx.data
            parsed == LeaderBlockCommitOp_parse_data(data)
        IN  /\ parsed # None
            /\ parsed.parent_block_backptr = 256 * data[65] + data[66]
            /\ parsed.parent_vtxindex = 256 * data[67] + data[68]
            /\ parsed.key_block_backptr = 256 * data[69] + data[70]
            /\ parsed.key_vtxindex = 256 * data[71] + data[72]
            /\ parsed.epoch_num = data[73] * (2^24) + data[74] * (2^16) + data[75] * (2^8) + data[76]

CanonicalOpcode ==
    IF last.kind = "commit_from_tx" THEN OpcodeLeaderBlockCommit ELSE OpcodeLeaderKeyRegister

\* C18: for both operations from_tx returns InvalidInput exactly when the
\* transaction has no inputs, or no outputs, or an opcode other than the
\* operation's own; whatever ParseError condition holds as well, the result
\* of such a transaction is InvalidInput.
C18_InvalidInputExactly ==
    last.kind \in {"commit_from_tx", "register_from_tx"} =>
        (IsErr(last.result, InvalidInput) <=>
            \/ Len(last.tx.signers) = 0
            \/ Len(last.tx.recipients) = 0
            \/ last.tx.opcode # CanonicalOpcode)

\* A commit transaction with the wrong opcode whose first output is not the
\* burn address is answered InvalidInput.
C18_Witness ==
    /\ last.kind = "commit_from_tx"
    /\ Len(last.tx.signers) > 0
    /\ Len(last.tx.recipients) > 0
    /\ last.tx.opcode # OpcodeLeaderBlockCommit
    /\ ~is_burn(last.tx.recipients[1].address)
    /\ IsErr(last.result, InvalidInput)

\* C19: a commit transaction that passes the InvalidInput tests is answered
\* ParseError when its first output is not the burn address or carries
\* amount 0; every LeaderBlockCommitOp from_tx returns has burn_fee equal to
\* the amount of the first output, which is positive and goes to the burn
\* address.
C19_BurnOutput ==
    last.kind = "commit_from_tx" =>
        /\ (ShapeOk(last.tx, OpcodeLeaderBlockCommit) /\ ~BurnOk(last.tx)) =>
               IsErr(last.result, ParseError)
        /\ IsOk(last.result) =>
               /\ last.result.op.burn_fee = last.tx.recipients[1].amount
               /\ last.result.op.burn_fee > 0
               /\ is_burn(last.tx.recipients[1].address)

\* A transaction with a good payload in range whose first output does not
\* burn is answered ParseError.
C19_Witness ==
    /\ last.kind = "commit_from_tx"
    /\ ShapeOk(last.tx, OpcodeLeaderBlockCommit)
    /\ ~is_burn(last.tx.recipients[1].address)
    /\ Len(last.tx.data) = 77
    /\ FieldsInRange(last.tx.data, last.header.block_height)
    /\ IsErr(last.result, ParseError)

\* C20: a commit transaction that has passed the tests before the decoder
\* and whose payload decodes is answered Ok when all of these hold and
\* ParseError when any fails: parent_block_backptr = 0 implies
\* parent_vtxindex = 0; parent_block_backptr < block_height;
\* key_block_backptr >= 1; key_block_backptr < block_height;
\* epoch_num < block_height, with the block_height of the header.
C20_RangeChecks ==
    (/\ last.kind = "commit_from_tx"
     /\ ShapeOk(last.tx, OpcodeLeaderBlockCommit)
     /\ BurnOk(last.tx)
     /\ LeaderBlockCommitOp_parse_data(last.tx.data) # None) =>
        LET data == LeaderBlockCommitOp_parse_data(last.tx.data)
            block_height == last.header.block_height
            in_range ==
                /\ data.parent_block_backptr = 0 => data.parent_vtxindex = 0
                /\ data.parent_block_backptr < block_height
                /\ data.key_block_backptr >= 1
                /\ data.key_block_backptr < block_height
                /\ data.epoch_num < block_height
        IN  IF in_range THEN IsOk(last.result) ELSE IsErr(last.result, ParseError)

\* A decoded commit whose key back-pointer equals the block height, every
\* other range check passing, is answered ParseError.
C20_Witness ==
    /\ last.kind = "commit_from_tx"
    /\ ShapeOk(last.tx, OpcodeLeaderBlockCommit)
    /\ BurnOk(last.tx)
    /\ Len(last.tx.data) = 77
    /\ LeaderBlockCommitOp_parse_data(last.tx.data).key_block_backptr = last.header.block_height
    /\ LeaderBlockCommitOp_parse_data(last.tx.data).parent_block_backptr = 0
    /\ LeaderBlockCommitOp_parse_data(last.tx.data).parent_vtxindex = 0
    /\ LeaderBlockCommitOp_parse_data(last.tx.data).epoch_num < last.header.block_height
    /\ IsErr(last.result, ParseError)

-----------------------------------------------------------------------------
\* Properties of the calls as a whole.

C12_CheckReadOnly ==
    [][(last = NoCall /\ last' # NoCall /\ last'.kind \in {"commit", "register"}) =>
           /\ snapshots' = snapshots
           /\ leader_keys' = leader_keys
           /\ block_commits' = block_commits]_vars

\* check has returned Ok for a commit and the commit is not in the store.
C12_Witness ==
    /\ last.kind = "commit"
    /\ last.result = Ok
    /\ last.op \notin block_commits
    /\ leader_keys # {}

\* The codes each call may return.
FromTxErrors == {InvalidInput, ParseError}
CommitCheckErrors ==
    {BlockCommitBadInput, BlockCommitPredatesGenesis, BlockCommitBadEpoch,
     BlockCommitNoLeaderKey, BlockCommitLeaderKeyAlreadyUsed, BlockCommitNoParent}
RegisterCheckErrors == {LeaderKeyAlreadyRegistered, LeaderKeyBadConsensusHash}
Aborts == {FatalNoParentSnapshot, SubtractOverflow}

\* What each call returns when it returns.
ReturnsInStratum ==
    /\ last.kind \in {"commit_from_tx", "register_from_tx"} =>
          IsOk(last.result) \/ last.result.error \in FromTxErrors
    /\ last.kind = "commit" => last.result \in CommitCheckErrors \cup {Ok} \cup Aborts
    /\ last.kind = "register" =>
          last.result \in RegisterCheckErrors \cup {Ok, FatalNoParentSnapshot}

-----------------------------------------------------------------------------
\* Properties of the processing of one block.

Reverse(txs) == [i \in DOMAIN txs |-> txs[Len(txs) + 1 - i]]

-----------------------------------------------------------------------------
\* Further properties of from_tx and check.

\* C21: LeaderKeyRegisterOp::from_tx does not return Ok for a register
\* transaction whose first output goes to the burn address: the first
\* output of a registration is a payment sink.
C21_RegisterPaymentSink ==
    (/\ last.kind = "register_from_tx"
     /\ Len(last.tx.recipients) > 0
     /\ is_burn(last.tx.recipients[1].address)) => ~IsOk(last.result)

\* C21, amended: LeaderKeyRegisterOp::from_tx makes no test of the first
\* output: a register transaction that passes the InvalidInput tests and
\* whose payload decodes is answered Ok whatever outputs[0].address is, the
\* burn address included, and the record carries that address.
C21_RegisterAddressUntested ==
    last.kind = "register_from_tx" =>
        /\ IsOk(last.result) <=>
              /\ ShapeOk(last.tx, OpcodeLeaderKeyRegister)
              /\ LeaderKeyRegisterOp_parse_data(last.tx.data) # None
        /\ IsOk(last.result) => last.result.op.address = last.tx.recipients[1].address

\* from_tx has returned a registration whose address is the burn address.
C21_Witness ==
    /\ last.kind = "register_from_tx"
    /\ IsOk(last.result)
    /\ is_burn(last.tx.recipients[1].address)
    /\ is_burn(last.result.op.address)

\* Fork segment ids a record or a header can be labelled with: the ones of
\* the store and one more.
SegmentLabels == 0..Cardinality(snapshots)

\* C22: the verdict of LeaderBlockCommitOp::check is scoped by the fork
\* segment of the snapshot of header.parent_block_hash only: a check that
\* differs from the recorded one only in op.fork_segment_id and in the
\* header's fork_segment_id and parent_fork_segment_id, on the same store,
\* ends with the same verdicts; so a commit labelled with a new fork segment
\* whose key and parent are on the tip's ancestor walk is accepted.
C22_SegmentOfParentSnapshotOnly ==
    last.kind = "commit" =>
        \A seg \in SegmentLabels, parent_seg \in SegmentLabels :
            LeaderBlockCommitOp_check(
                [last.op EXCEPT !.fork_segment_id = seg],
                [last.header EXCEPT !.fork_segment_id = seg, !.parent_fork_segment_id = parent_seg],
                last.overflow_checks)
            = LeaderBlockCommitOp_check(last.op, last.header, last.overflow_checks)

\* A commit with a stored parent and a key on the tip's ancestor walk was
\* accepted, and is accepted again under the label of a segment no row has.
C22_Witness ==
    /\ last.kind = "commit"
    /\ last.result = Ok
    /\ last.op.parent_block_backptr # 0
    /\ LeaderBlockCommitOp_check(
           [last.op EXCEPT !.fork_segment_id = Cardinality(snapshots)],
           [last.header EXCEPT !.fork_segment_id = Cardinality(snapshots)],
           last.overflow_checks) = {Ok}

\* C23: a commit with parent_block_backptr = 0 and parent_vtxindex = 0 that
\* passes rules (1) to (7) and the address binding is accepted whatever
\* commits the store holds: no parent is looked up for it, so the accepted
\* commits bear on its verdict through rule (7) alone.
C23_GenesisParentNoLookup ==
    (/\ ReachedKeyLookup
     /\ last.op.parent_block_backptr = 0
     /\ last.op.parent_vtxindex = 0) =>
        /\ last.result # BlockCommitNoParent
        /\ \A key \in KeysAtSlot(last.op, LastTip) :
              (~KeyConsumed(key, LastTip) /\ ~WrongSigner(last.op, key)) =>
                  CheckWithKey(last.op, LastTip, key, last.op.block_height) = Ok
        /\ (\A key \in KeysAtSlot(last.op, LastTip) :
               ~KeyConsumed(key, LastTip) /\ ~WrongSigner(last.op, key)) =>
              last.result = IF KeysAtSlot(last.op, LastTip) = {} THEN BlockCommitNoLeaderKey ELSE Ok

\* A genesis-parent commit was accepted against a store that holds commits.
C23_Witness ==
    /\ ReachedKeyLookup
    /\ last.op.parent_block_backptr = 0
    /\ last.op.parent_vtxindex = 0
    /\ block_commits # {}
    /\ last.result = Ok

\* The snapshots the recorded tip sees (section 4.E: fork segment on the
\* ancestor walk of the tip's) at the heights from..to.
SnapshotsSeenAt(from, to) ==
    {s \in snapshots : /\ s.fork_segment_id \in AncestorSegments(LastTip.fork_segment_id)
                       /\ s.block_height >= from
                       /\ s.block_height <= to}

C25_MemoHandling ==
    /\ (last.kind = "commit_from_tx" /\ Len(last.tx.data) >= 77) =>
          LET data == last.tx.data
              parsed == LeaderBlockCommitOp_parse_data(data)
          IN  /\ parsed.memo = <<data[77]>>
              /\ LeaderBlockCommitOp_parse_data(SubSeq(data, 1, 77)) = parsed
              /\ \A byte \in {0, 128, 255} :
                    LeaderBlockCommitOp_parse_data(data \o <<byte>>) = parsed
              /\ IsOk(last.result) => last.result.op.memo = <<data[77]>>
    /\ (last.kind = "register_from_tx" /\ Len(last.tx.data) >= 52 /\ last.tx.data[21] # 255) =>
          LET data == last.tx.data
              parsed == LeaderKeyRegisterOp_parse_data(data)
          IN  /\ parsed.memo = SubSeq(data, 53, Len(data))
              /\ Len(parsed.memo) = Len(data) - 52
              /\ Len(data) = 52 => parsed.memo = <<>>
              /\ IsOk(last.result) => last.result.op.memo = parsed.memo

\* from_tx has decoded a commit payload of more than 77 bytes and the memo
\* of the record is its byte 76 alone.
C25_Witness ==
    /\ last.kind = "commit_from_tx"
    /\ Len(last.tx.data) > 77
    /\ IsOk(last.result)
    /\ last.result.op.memo = <<last.tx.data[77]>>

\* Rules (1) to (3) pass on the record and the call did not panic in the
\* subtractions.
PassesBurnAndEpoch(op, overflow_checks) ==
    /\ ~(overflow_checks /\ Underflows(op))
    /\ op.burn_fee # 0
    /\ op.block_height >= get_first_block_snapshot.block_height
    /\ op.epoch_num = op.block_height - get_first_block_snapshot.block_height

\* C26: references into the commit's own block are refused whatever the
\* store holds at the slot: a commit with key_block_backptr = 0 that passes
\* rules (1) to (3) is answered BlockCommitNoLeaderKey, a key registered at
\* (block_height, key_vtxindex) or not; a commit with parent_block_backptr
\* = 0 and parent_vtxindex # 0 whose key is found and unused is answered
\* BlockCommitNoParent, a commit stored at (block_height, parent_vtxindex)
\* or not.
C26_NoSameBlockReference ==
    last.kind = "commit" =>
        /\ (PassesBurnAndEpoch(last.op, last.overflow_checks) /\ last.op.key_block_backptr = 0) =>
              last.result = BlockCommitNoLeaderKey
        /\ (/\ ReachedKeyLookup
            /\ last.op.parent_block_backptr = 0
            /\ last.op.parent_vtxindex # 0
            /\ KeysAtSlot(last.op, LastTip) # {}
            /\ \A key \in KeysAtSlot(last.op, LastTip) : ~KeyConsumed(key, LastTip)) =>
              last.result = BlockCommitNoParent

\* A commit was answered BlockCommitNoLeaderKey for key_block_backptr = 0
\* while the tip sees a key at the slot (block_height, key_vtxindex).
C26_Witness ==
    /\ last.kind = "commit"
    /\ PassesBurnAndEpoch(last.op, last.overflow_checks)
    /\ last.op.key_block_backptr = 0
    /\ LastTipKnown
    /\ get_leader_key_at(last.op.block_height, last.op.key_vtxindex, LastTip.fork_segment_id) # {}
    /\ last.result = BlockCommitNoLeaderKey

\* A commit was answered BlockCommitNoParent for a parent in its own block
\* while the tip sees a commit at the slot (block_height, parent_vtxindex).
SameBlockParentRefused ==
    /\ ReachedKeyLookup
    /\ last.op.parent_block_backptr = 0
    /\ last.op.parent_vtxindex # 0
    /\ get_block_commit_at(last.op.block_height, last.op.parent_vtxindex, LastTip.fork_segment_id) # {}
    /\ last.result = BlockCommitNoParent

\* The transaction with its first input and its first output only.
FirstInputAndOutput(tx) ==
    [tx EXCEPT !.signers = <<tx.signers[1]>>, !.recipients = <<tx.recipients[1]>>]

\* C27: every record from_tx returns has block_height, burn_header_hash and
\* fork_segment_id of the header and txid and vtxindex of the transaction;
\* a commit has input = inputs[0], a registration address =
\* outputs[0].address; the other inputs and outputs do not bear on the
\* record: the transaction cut down to its first input and first output
\* decodes to the same record.
C27_RecordFields ==
    (last.kind \in {"commit_from_tx", "register_from_tx"} /\ IsOk(last.result)) =>
        /\ last.result.op.block_height = last.header.block_height
        /\ last.result.op.burn_header_hash = last.header.block_hash
        /\ last.result.op.fork_segment_id = last.header.fork_segment_id
        /\ last.result.op.txid = last.tx.txid
        /\ last.result.op.vtxindex = last.tx.vtxindex
        /\ last.kind = "commit_from_tx" =>
              /\ last.result.op.input = last.tx.signers[1]
              /\ LeaderBlockCommitOp_from_tx(last.header, FirstInputAndOutput(last.tx)) = last.result
        /\ last.kind = "register_from_tx" =>
              /\ last.result.op.address = last.tx.recipients[1].address
              /\ LeaderKeyRegisterOp_from_tx(last.header, FirstInputAndOutput(last.tx)) = last.result

\* from_tx has returned a commit for a transaction of two inputs and two
\* outputs, on a header with a block hash and a fork segment other than 0.
C27_Witness ==
    /\ last.kind = "commit_from_tx"
    /\ IsOk(last.result)
    /\ Len(last.tx.signers) = 2
    /\ Len(last.tx.recipients) = 2
    /\ last.header.block_hash # 0
    /\ last.header.fork_segment_id # 0
    /\ last.result.op.input = last.tx.signers[1]

\* C28: for a commit from_tx has returned, check called with the same header
\* does not underflow: block_height - key_block_backptr and block_height -
\* parent_block_backptr are both at least 1, whether the build traps the
\* underflow or wraps. The record has a burn, a key back-pointer other than
\* 0 and no parent in its own block, so check leaves by none of these three
\* branches.
C28_FromTxRecordsSkipBranches ==
    (last.kind = "commit_from_tx" /\ IsOk(last.result)) =>
        LET op == last.result.op
        IN  /\ op.block_height - op.key_block_backptr >= 1
            /\ op.block_height - op.parent_block_backptr >= 1
            /\ ~Underflows(op)
            /\ \A overflow_checks \in BOOLEAN :
                   SubtractOverflow \notin LeaderBlockCommitOp_check(op, last.header, overflow_checks)
            /\ op.burn_fee # 0
            /\ op.key_block_backptr # 0
            /\ ~(op.parent_block_backptr = 0 /\ op.parent_vtxindex # 0)

\* from_tx has returned a commit whose key and parent both sit one block
\* above the bottom: both differences are exactly 1.
C28_Witness ==
    /\ last.kind = "commit_from_tx"
    /\ IsOk(last.result)
    /\ last.result.op.block_height - last.result.op.key_block_backptr = 1
    /\ last.result.op.block_height - last.result.op.parent_block_backptr = 1

\* check has been called on a record built otherwise than by from_tx and has
\* left by one of the three branches: no burn, a key in the same block, or
\* a parent in the same block.
BranchesTakenByOtherRecords ==
    /\ last.kind = "commit"
    /\ ~Underflows(last.op)
    /\ \/ last.op.burn_fee = 0 /\ last.result = BlockCommitBadInput
       \/ PassesBurnAndEpoch(last.op, last.overflow_checks) /\ last.op.key_block_backptr = 0
       \/ SameBlockParentRefused

\* C29: LeaderBlockCommitOp::from_tx returns no record for a header of
\* block_height below 2: the key back-pointer cannot be at least 1 and less
\* than the height.
C29_NoCommitBelowHeightTwo ==
    (last.kind = "commit_from_tx" /\ last.header.block_height < 2) => ~IsOk(last.result)

\* from_tx has been called at height 1 on a transaction that decodes at
\* height 2, key one block back and parent the genesis block, and has
\* returned ParseError.
C29_Witness ==
    /\ last.kind = "commit_from_tx"
    /\ last.header.block_height = 1
    /\ IsOk(LeaderBlockCommitOp_from_tx(ParseHeader(2), last.tx))
    /\ last.result = Err(ParseError)

\* The first snapshot of a burnchain that starts at block_height.
FirstSnapshotAt(block_height) == [get_first_block_snapshot EXCEPT !.block_height = block_height]

\* C30: on a burnchain whose first snapshot has block_height 0, check
\* rejects every commit from_tx returns, with BlockCommitBadEpoch or with an
\* error of an earlier rule: from_tx wants epoch_num < block_height, check
\* wants epoch_num = block_height - 0.
C30_NoCommitOnChainFromZero ==
    (last.kind = "commit_from_tx" /\ IsOk(last.result)) =>
        /\ ~Underflows(last.result.op)
        /\ last.result.op.epoch_num < last.result.op.block_height
        /\ CheckBurnAndEpoch(last.result.op, FirstSnapshotAt(0))
               \in {BlockCommitBadInput, BlockCommitPredatesGenesis, BlockCommitBadEpoch}

\* from_tx has returned a commit that the burn and epoch rules of check
\* reject with BlockCommitBadEpoch on a chain that starts at height 0 and let
\* through on the chain of the store, which starts above 0.
C30_Witness ==
    /\ last.kind = "commit_from_tx"
    /\ IsOk(last.result)
    /\ get_first_block_snapshot.block_height >= 1
    /\ CheckBurnAndEpoch(last.result.op, FirstSnapshotAt(0)) = BlockCommitBadEpoch
    /\ CheckBurnAndEpoch(last.result.op, get_first_block_snapshot) = Ok

-----------------------------------------------------------------------------
\* Missing parent snapshot, width of the pointer fields, and the records
\* built by new(), initial() and set_mined_at.

-----------------------------------------------------------------------------
\* The test constructors: new() and initial() build a record with absolute
\* heights in the back-pointer fields and zero placeholders; set_mined_at
\* rewrites it for the header it is mined in.

U16 == 65536
\* `as u16` and `as u32`: the low bits of the value.
as_u16(x) == x % U16
as_u32(x) == x - ((x \div U16) \div U16) * U16 * U16

\* Txid([0u8; 32]), BurnchainHeaderHash([0u8; 32]), ConsensusHash([0u8; 20])
ZeroTxid == <<0, 0>>
ZeroBurnchainHeaderHash == 0
ZeroConsensusHash == 0

Txid_from_test_data(block_height, vtxindex, block_hash) ==
    <<"test_data", block_height, vtxindex, block_hash>>

Burnchain(first_block_height) == [first_block_height |-> first_block_height]

\* LeaderBlockCommitOp::initial
LeaderBlockCommitOp_initial(block_header_hash, paired_key, burn_fee, input) ==
    [new_seed |-> 0,
     key_vtxindex |-> as_u16(paired_key.vtxindex),
     parent_vtxindex |-> 0,
     memo |-> <<0>>,
     burn_fee |-> burn_fee,
     input |-> input,
     block_header_hash |-> block_header_hash,
     epoch_num |-> 0,
     parent_block_backptr |-> 0,
     key_block_backptr |-> as_u16(paired_key.block_height),
     txid |-> ZeroTxid,
     vtxindex |-> 0,
     block_height |-> 0,
     burn_header_hash |-> ZeroBurnchainHeaderHash,
     fork_segment_id |-> 0]

\* LeaderBlockCommitOp::new; key_block_height and key_vtxindex are u16.
LeaderBlockCommitOp_new(block_header_hash, new_seed, parent, key_block_height, key_vtxindex, burn_fee, input) ==
    [new_seed |-> new_seed,
     key_vtxindex |-> key_vtxindex,
     parent_vtxindex |-> as_u16(parent.vtxindex),
     memo |-> <<>>,
     burn_fee |-> burn_fee,
     input |-> input,
     block_header_hash |-> block_header_hash,
     epoch_num |-> 0,
     parent_block_backptr |-> as_u16(parent.block_height),
     key_block_backptr |-> as_u16(key_block_height),
     txid |-> ZeroTxid,
     vtxindex |-> 0,
     block_height |-> 0,
     burn_header_hash |-> ZeroBurnchainHeaderHash,
     fork_segment_id |-> 0]

\* LeaderKeyRegisterOp::new
LeaderKeyRegisterOp_new(sender, public_key) ==
    [public_key |-> public_key,
     memo |-> <<>>,
     address |-> sender,
     consensus_hash |-> ZeroConsensusHash,
     txid |-> ZeroTxid,
     vtxindex |-> 0,
     block_height |-> 0,
     burn_header_hash |-> ZeroBurnchainHeaderHash,
     fork_segment_id |-> 0]

\* What set_mined_at leaves: the record as rewritten, or nothing when a u64
\* subtraction underflows in a build with overflow checks.
Mined(op) == [tag |-> "Mined", op |-> op]
Panicked == [tag |-> "Panicked"]

\* A u64 subtraction of LeaderBlockCommitOp::set_mined_at underflows.
SetMinedAtUnderflows(op, burnchain, block_header) ==
    \/ block_header.block_height < op.key_block_backptr
    \/ Len(op.memo) = 0 /\ block_header.block_height < op.parent_block_backptr
    \/ block_header.block_height < burnchain.first_block_height

\* LeaderBlockCommitOp::set_mined_at that rewrites the parent back-pointer
\* whatever the memo is.
LeaderBlockCommitOp_set_mined_at_any_memo(op, burnchain, consensus_hash, block_header, overflow_checks) ==
    IF overflow_checks /\ SetMinedAtUnderflows(op, burnchain, block_header) THEN Panicked
    ELSE Mined([op EXCEPT
             !.key_block_backptr = as_u16(wrapping_sub(block_header.block_height, @)),
             !.parent_block_backptr = as_u16(wrapping_sub(block_header.block_height, @)),
             !.epoch_num = as_u32(wrapping_sub(block_header.block_height, burnchain.first_block_height)),
             !.txid = IF @ # ZeroTxid
                      THEN Txid_from_test_data(block_header.block_height, op.vtxindex, block_header.block_hash)
                      ELSE @,
             !.burn_header_hash = IF @ # ZeroBurnchainHeaderHash THEN block_header.block_hash ELSE @,
             !.block_height = block_header.block_height,
             !.fork_segment_id = block_header.fork_segment_id])

\* LeaderBlockCommitOp::set_mined_at that adds the key height to the header
\* height.
LeaderBlockCommitOp_set_mined_at_adds(op, burnchain, consensus_hash, block_header, overflow_checks) ==
    IF overflow_checks /\ SetMinedAtUnderflows(op, burnchain, block_header) THEN Panicked
    ELSE Mined([op EXCEPT
             !.key_block_backptr = as_u16(block_header.block_height + @),
             !.parent_block_backptr =
                 IF Len(op.memo) = 0 THEN as_u16(wrapping_sub(block_header.block_height, @)) ELSE @,
             !.epoch_num = as_u32(wrapping_sub(block_header.block_height, burnchain.first_block_height)),
             !.txid = IF @ # ZeroTxid
                      THEN Txid_from_test_data(block_header.block_height, op.vtxindex, block_header.block_hash)
                      ELSE @,
             !.burn_header_hash = IF @ # ZeroBurnchainHeaderHash THEN block_header.block_hash ELSE @,
             !.block_height = block_header.block_height,
             !.fork_segment_id = block_header.fork_segment_id])

\* LeaderBlockCommitOp::set_mined_at. consensus_hash is not read. The tests
\* of txid and burn_header_hash are for a value other than zero.
LeaderBlockCommitOp_set_mined_at(op, burnchain, consensus_hash, block_header, overflow_checks) ==
    IF overflow_checks /\ SetMinedAtUnderflows(op, burnchain, block_header) THEN Panicked
    ELSE Mined([op EXCEPT
             !.key_block_backptr = as_u16(wrapping_sub(block_header.block_height, @)),
             !.parent_block_backptr =
                 IF Len(op.memo) = 0 THEN as_u16(wrapping_sub(block_header.block_height, @)) ELSE @,
             !.epoch_num = as_u32(wrapping_sub(block_header.block_height, burnchain.first_block_height)),
             !.txid = IF @ # ZeroTxid
                      THEN Txid_from_test_data(block_header.block_height, op.vtxindex, block_header.block_hash)
                      ELSE @,
             !.burn_header_hash = IF @ # ZeroBurnchainHeaderHash THEN block_header.block_hash ELSE @,
             !.block_height = block_header.block_height,
             !.fork_segment_id = block_header.fork_segment_id])

\* LeaderKeyRegisterOp::set_mined_at: no subtraction, so no build panics.
LeaderKeyRegisterOp_set_mined_at(op, burnchain, consensus_hash, block_header) ==
    Mined([op EXCEPT
        !.consensus_hash = IF @ # ZeroConsensusHash THEN consensus_hash ELSE @,
        !.txid = IF @ # ZeroTxid
                 THEN Txid_from_test_data(block_header.block_height, op.vtxindex, block_header.block_hash)
                 ELSE @,
        !.burn_header_hash = IF @ # ZeroBurnchainHeaderHash THEN block_header.block_hash ELSE @,
        !.block_height = block_header.block_height,
        !.fork_segment_id = block_header.fork_segment_id])

\* Calls of the constructors and of set_mined_at. `last` holds the record
\* under construction: who built it, from what, and what set_mined_at made
\* of it.

MaxMinedBlocks == 1
\* vtxindex values of a key block, below and above 2^16.
WideVtxindexes == {1, U16 - 1, U16}
\* Block heights of keys and parents, below and above 2^16.
WideHeights == {2, 70000}
\* Headers the record is mined in: a child of a snapshot of the store, or a
\* header of a chain the store does not hold.
MinedHeaders ==
    {BurnchainBlockHeader(parent) : parent \in snapshots} \cup
    {[block_height |-> block_height,
      block_hash |-> 9,
      parent_block_hash |-> UnknownBurnHash,
      fork_segment_id |-> 1,
      parent_fork_segment_id |-> 0] : block_height \in {0, 3, U16 + 2, 70001, 70001 + U16}}

\* The keys initial() is paired with: the accepted ones, and keys of a chain
\* the store does not hold.
PairedKeys ==
    leader_keys \cup
    {[LeaderKeyRegisterOp_new(Address(1), 1) EXCEPT !.block_height = block_height, !.vtxindex = vtxindex] :
        block_height \in WideHeights, vtxindex \in {1, U16}}

\* The parents new() is given; it reads block_height and vtxindex.
ParentCommits ==
    {[LeaderBlockCommitOp_initial(0, LeaderKeyRegisterOp_new(Address(1), 1), 1, BurnchainSigner(1))
         EXCEPT !.block_height = block_height, !.vtxindex = vtxindex] :
        block_height \in WideHeights, vtxindex \in {1, U16 + 1}}

BuildInitial(paired_key, input) ==
    /\ last = NoCall
    /\ last' = [kind |-> "built", by |-> "initial", args |-> [paired_key |-> paired_key],
                op |-> LeaderBlockCommitOp_initial(0, paired_key, 1, input)]
    /\ UNCHANGED <<snapshots, leader_keys, block_commits, type_map>>

BuildNew(parent, key_block_height, key_vtxindex) ==
    /\ last = NoCall
    /\ last' = [kind |-> "built", by |-> "new",
                args |-> [parent |-> parent, key_block_height |-> key_block_height,
                          key_vtxindex |-> key_vtxindex],
                op |-> LeaderBlockCommitOp_new(0, 0, parent, key_block_height, key_vtxindex, 1,
                                               BurnchainSigner(1))]
    /\ UNCHANGED <<snapshots, leader_keys, block_commits, type_map>>

BuildRegister(sender, public_key) ==
    /\ last = NoCall
    /\ last' = [kind |-> "built", by |-> "register_new", args |-> [sender |-> sender],
                op |-> LeaderKeyRegisterOp_new(sender, public_key)]
    /\ UNCHANGED <<snapshots, leader_keys, block_commits, type_map>>

\* The caller assigns the placeholder fields itself before set_mined_at.
AssignPlaceholders ==
    /\ last.kind = "built"
    /\ last.by \in {"new", "initial", "register_new"}
    /\ last' = [last EXCEPT
                   !.by = "assigned",
                   !.op = IF IsRegister(last.op)
                          THEN [last.op EXCEPT !.txid = <<7, 1>>, !.burn_header_hash = 7,
                                               !.consensus_hash = 7]
                          ELSE [last.op EXCEPT !.txid = <<7, 1>>, !.burn_header_hash = 7]]
    /\ UNCHANGED <<snapshots, leader_keys, block_commits, type_map>>

\* One call of set_mined_at on the record, of either kind.
SetMinedAtResult(op, burnchain, consensus_hash, block_header, overflow_checks) ==
    IF IsRegister(op) THEN LeaderKeyRegisterOp_set_mined_at(op, burnchain, consensus_hash, block_header)
    ELSE LeaderBlockCommitOp_set_mined_at(op, burnchain, consensus_hash, block_header, overflow_checks)

SetMinedAt(consensus_hash, block_header, overflow_checks) ==
    /\ last.kind = "built"
    /\ last' = [kind |-> "mined", by |-> last.by, args |-> last.args, built |-> last.op,
                consensus_hash |-> consensus_hash, header |-> block_header,
                overflow_checks |-> overflow_checks, times |-> 1,
                result |-> SetMinedAtResult(last.op, Burnchain(FirstBlockHeight), consensus_hash,
                                            block_header, overflow_checks)]
    /\ UNCHANGED <<snapshots, leader_keys, block_commits, type_map>>

\* set_mined_at is called a second time on the record.
SetMinedAtAgain(block_header) ==
    /\ last.kind = "mined"
    /\ last.times = 1
    /\ last.result.tag = "Mined"
    /\ last' = [last EXCEPT
                   !.header = block_header,
                   !.times = 2,
                   !.result = SetMinedAtResult(last.result.op, Burnchain(FirstBlockHeight),
                                               last.consensus_hash, block_header,
                                               last.overflow_checks)]
    /\ UNCHANGED <<snapshots, leader_keys, block_commits, type_map>>

\* check is called on the commit set_mined_at has left, with the header it
\* was mined in.
CheckMined ==
    /\ last.kind = "mined"
    /\ last.times = 1
    /\ last.result.tag = "Mined"
    /\ ~IsRegister(last.result.op)
    /\ \E result \in LeaderBlockCommitOp_check(last.result.op, last.header, last.overflow_checks) :
          last' = [kind |-> "commit", by |-> last.by, args |-> last.args, op |-> last.result.op,
                   header |-> last.header, overflow_checks |-> last.overflow_checks,
                   result |-> result]
    /\ UNCHANGED <<snapshots, leader_keys, block_commits, type_map>>

NextMined ==
    \/ /\ last = NoCall
       /\ Cardinality(snapshots) <= MaxMinedBlocks
       /\ \E parent \in snapshots, vtxindex \in WideVtxindexes, public_key \in PublicKeys :
             ProcessBlock(parent, <<RegisterFromTx(BurnchainBlockHeader(parent), vtxindex,
                                                   parent.consensus_hash, public_key, public_key)>>)
    \/ /\ last = NoCall
       /\ \E paired_key \in PairedKeys, signer \in AddressBytes :
             BuildInitial(paired_key, BurnchainSigner(signer))
    \/ /\ last = NoCall
       /\ \E parent \in ParentCommits, key_block_height \in {1, 2, as_u16(70000), U16 - 1}, key_vtxindex \in {1, U16 - 1} :
             BuildNew(parent, key_block_height, key_vtxindex)
    \/ /\ last = NoCall
       /\ \E sender \in AddressBytes, public_key \in PublicKeys :
             BuildRegister(Address(sender), public_key)
    \/ AssignPlaceholders
    \/ /\ last.kind = "built"
       /\ \E consensus_hash \in {3}, block_header \in MinedHeaders, overflow_checks \in BOOLEAN :
             SetMinedAt(consensus_hash, block_header, overflow_checks)
    \/ /\ last.kind = "mined"
       /\ \E block_header \in MinedHeaders : SetMinedAtAgain(block_header)
    \/ CheckMined
    \/ Return

SpecMined == Init /\ [][NextMined]_vars

-----------------------------------------------------------------------------
\* Properties of the records the test constructors build (specification
\* SpecMined).

\* check has been called on a commit that initial() paired with an accepted
\* key of the store, that was mined in a child of the key's block and is
\* signed by the key's address.
ConsumingCommitChecked ==
    /\ last.kind = "commit"
    /\ last.by = "initial"
    /\ last.args.paired_key \in leader_keys
    /\ last.header.parent_block_hash = last.args.paired_key.burn_header_hash
    /\ to_address_bits(last.op.input) = to_bytes(last.args.paired_key.address)

\* C32: every accepted key can be consumed by a later commit, whatever its
\* vtxindex: the commit that points at the key from the next block, with
\* the key's vtxindex in key_vtxindex, is accepted.
C32_EveryKeyConsumable ==
    ConsumingCommitChecked => last.result = Ok

\* The same for the keys whose vtxindex fits 16 bits, and what a key at a
\* vtxindex of 2^16 or more gets: key_vtxindex holds the low 16 bits, which
\* name another slot.
C32_KeyConsumableWithinWidth ==
    ConsumingCommitChecked =>
        IF last.args.paired_key.vtxindex < U16 THEN last.result = Ok
        ELSE /\ last.op.key_vtxindex # last.args.paired_key.vtxindex
             /\ last.result = BlockCommitNoLeaderKey

\* set_mined_at has been called once on a record built by new(), with a
\* header above the parent's and the key's height and not below the first
\* block.
MinedOnceAfterNew ==
    /\ last.kind = "mined"
    /\ last.by = "new"
    /\ last.times = 1
    /\ last.header.block_height > last.args.parent.block_height
    /\ last.header.block_height > last.args.key_block_height
    /\ last.header.block_height >= FirstBlockHeight

\* C36: for a commit built by new() and passed once to set_mined_at with a
\* header above the parent's and the key's height, key_block_backptr is
\* header.block_height - key_block_height, parent_block_backptr is
\* header.block_height - parent.block_height and epoch_num is
\* header.block_height - first_block_height, each when the difference fits
\* the field; this holds for a parent above 65535 too, whose height new()
\* cuts to 16 bits.
C36_BackptrsFromHeights ==
    MinedOnceAfterNew =>
        /\ last.result.tag = "Mined"
        /\ last.header.block_height - last.args.key_block_height < U16 =>
              last.result.op.key_block_backptr = last.header.block_height - last.args.key_block_height
        /\ last.header.block_height - last.args.parent.block_height < U16 =>
              last.result.op.parent_block_backptr =
                  last.header.block_height - last.args.parent.block_height
        /\ last.result.op.epoch_num = last.header.block_height - FirstBlockHeight

\* set_mined_at has rewritten a commit whose parent lies above 65535, one
\* block below the header: new() stored the low 16 bits of the parent's
\* height, and the back-pointer is 1.
C36_Witness ==
    /\ MinedOnceAfterNew
    /\ last.args.parent.block_height >= U16
    /\ last.built.parent_block_backptr # last.args.parent.block_height
    /\ last.result.tag = "Mined"
    /\ last.result.op.parent_block_backptr = 1
    /\ last.result.op.key_block_backptr = last.header.block_height - last.args.key_block_height

\* set_mined_at has been called once on a record built by initial().
MinedOnceAfterInitial ==
    /\ last.kind = "mined"
    /\ last.by = "initial"
    /\ last.times = 1

\* C37: for a commit built by initial(), set_mined_at leaves
\* parent_block_backptr = 0 and parent_vtxindex = 0 and rewrites
\* key_block_backptr to header.block_height - paired_key.block_height.
C37_InitialKeepsParent ==
    MinedOnceAfterInitial =>
        /\ last.result.tag = "Mined"
        /\ last.result.op.parent_block_backptr = 0
        /\ last.result.op.parent_vtxindex = 0
        /\ last.result.op.key_block_backptr =
               last.header.block_height - last.args.paired_key.block_height

\* C37, amended: set_mined_at leaves the parent pointers at 0 and writes
\* into key_block_backptr the low 16 bits of header.block_height minus the
\* low 16 bits of the key's height: header.block_height -
\* paired_key.block_height when that difference is in 0..65535. A build
\* with overflow checks panics when a subtraction underflows.
C37_InitialKeepsParentWithinWidth ==
    MinedOnceAfterInitial =>
        IF /\ last.overflow_checks
           /\ \/ last.header.block_height < as_u16(last.args.paired_key.block_height)
              \/ last.header.block_height < FirstBlockHeight
        THEN last.result = Panicked
        ELSE /\ last.result.tag = "Mined"
             /\ last.result.op.parent_block_backptr = 0
             /\ last.result.op.parent_vtxindex = 0
             /\ last.result.op.key_block_backptr =
                    as_u16(last.header.block_height - as_u16(last.args.paired_key.block_height))
             /\ (last.header.block_height - last.args.paired_key.block_height) \in 0..(U16 - 1) =>
                    last.result.op.key_block_backptr =
                        last.header.block_height - last.args.paired_key.block_height

\* set_mined_at has rewritten a commit that initial() paired with a key
\* above 65535, one block below the header: key_block_backptr is 1 and the
\* parent pointers are 0.
C37_Witness ==
    /\ MinedOnceAfterInitial
    /\ last.args.paired_key.block_height >= U16
    /\ last.result.tag = "Mined"
    /\ last.result.op.key_block_backptr = 1
    /\ last.header.block_height - last.args.paired_key.block_height = 1
    /\ last.result.op.parent_block_backptr = 0
    /\ last.result.op.parent_vtxindex = 0

\* set_mined_at has been called once on a record as new() or initial()
\* built it.
MinedOnceFresh ==
    /\ last.kind = "mined"
    /\ last.by \in {"new", "initial", "register_new"}
    /\ last.times = 1
    /\ last.result.tag = "Mined"

\* C38: set_mined_at fills the placeholders of a record as new() or
\* initial() built it: the txid is the test txid of (header.block_height,
\* vtxindex, header.block_hash), burn_header_hash is header.block_hash, the
\* consensus_hash of a registration is the one given, and block_height and
\* fork_segment_id are the header's.
C38_PlaceholdersFilled ==
    MinedOnceFresh =>
        /\ last.result.op.txid =
               Txid_from_test_data(last.header.block_height, last.built.vtxindex, last.header.block_hash)
        /\ last.result.op.burn_header_hash = last.header.block_hash
        /\ IsRegister(last.built) => last.result.op.consensus_hash = last.consensus_hash
        /\ last.result.op.block_height = last.header.block_height
        /\ last.result.op.fork_segment_id = last.header.fork_segment_id

\* What set_mined_at does: block_height and fork_segment_id are the
\* header's; txid, burn_header_hash and consensus_hash are rewritten in the
\* records where they are not the zero placeholder, and stay zero in the
\* records new() and initial() built.
C38_PlaceholdersKept ==
    (last.kind = "mined" /\ last.times = 1 /\ last.result.tag = "Mined") =>
        /\ last.result.op.block_height = last.header.block_height
        /\ last.result.op.fork_segment_id = last.header.fork_segment_id
        /\ IF last.by = "assigned"
           THEN /\ last.result.op.txid =
                       Txid_from_test_data(last.header.block_height, last.built.vtxindex,
                                           last.header.block_hash)
                /\ last.result.op.burn_header_hash = last.header.block_hash
                /\ IsRegister(last.built) => last.result.op.consensus_hash = last.consensus_hash
           ELSE /\ last.result.op.txid = ZeroTxid
                /\ last.result.op.burn_header_hash = ZeroBurnchainHeaderHash
                /\ IsRegister(last.built) => last.result.op.consensus_hash = ZeroConsensusHash

-----------------------------------------------------------------------------
\* The type checks of the map functions (vm/checker/typecheck/natives/maps.rs).
\* The checker walks a contract once; every expression has its own id, and
\* an error ends the walk.

\* TypeSignature: atom types, and buffers with their maximum length.
AtomType(atom) == [atom |-> atom, len |-> 0]
BufferType(len) == [atom |-> "BufferType", len |-> len]
IntType == AtomType("IntType")
BoolType == AtomType("BoolType")
VoidType == AtomType("VoidType")
no_type == AtomType("NoType")

\* expected.admits_type(actual): the same atom type, or a buffer no longer
\* than the expected one.
admits_type(expected, actual) ==
    /\ expected.atom = actual.atom
    /\ expected.atom = "BufferType" => actual.len <= expected.len

OkType(type) == [tag |-> "Ok", type |-> type]

\* CheckErrors
IncorrectArgumentCount(expected, found) ==
    [code |-> "IncorrectArgumentCount", expected |-> expected, found |-> found]
BadMapName == [code |-> "BadMapName"]
ContractCallExpectName == [code |-> "ContractCallExpectName"]
NoSuchMap(map_name) == [code |-> "NoSuchMap", name |-> map_name]
NoSuchContract(contract_name) == [code |-> "NoSuchContract", name |-> contract_name]
TypeError(expected, found) == [code |-> "TypeError", expected |-> expected, found |-> found]
TypeAlreadyAnnotatedFailure == [code |-> "TypeAlreadyAnnotatedFailure"]
UnboundVariable(name) == [code |-> "UnboundVariable", name |-> name]

\* SymbolicExpression: an atom with its name, or another expression; typed
\* is what TypeChecker::type_check finds for it in the context of the call.
AtomExpression(name) ==
    [is_atom |-> TRUE, name |-> name, typed |-> Err(UnboundVariable(name))]
LiteralExpression(type) ==
    [is_atom |-> FALSE, name |-> "", typed |-> OkType(type)]
IllTypedExpression ==
    [is_atom |-> FALSE, name |-> "", typed |-> Err(TypeError(IntType, BoolType))]

\* The expression with its id in the contract.
WithId(expression, id) ==
    [id |-> id, is_atom |-> expression.is_atom, name |-> expression.name, typed |-> expression.typed]

\* checker.contract_context: the maps the contract has declared so far, with
\* their key and value types.
ContractContext == [map_types |-> [m |-> [key_type |-> BufferType(2), value_type |-> IntType]]]

\* checker.db: the maps of the contracts already published.
AnalysisDatabase ==
    [contracts |-> [c |-> [map_types |-> [m |-> [key_type |-> BufferType(2), value_type |-> BoolType]]]]]

\* contract_context.get_map_type: a set with the types, empty for None.
ContractContext_get_map_type(contract_context, map_name) ==
    IF map_name \in DOMAIN contract_context.map_types
    THEN {contract_context.map_types[map_name]}
    ELSE {}

\* db.get_map_type: the types, or an error.
AnalysisDatabase_get_map_type(db, contract_name, map_name) ==
    IF contract_name \notin DOMAIN db.contracts THEN Err(NoSuchContract(contract_name))
    ELSE IF map_name \notin DOMAIN db.contracts[contract_name].map_types
    THEN Err(NoSuchMap(map_name))
    ELSE [tag |-> "Ok", types |-> db.contracts[contract_name].map_types[map_name]]

\* What a step of a check leaves: the result so far and the type map.
Checked(result, types) == [result |-> result, type_map |-> types]

\* type_map.set_type: an expression is annotated once.
set_type(types, expression, type) ==
    IF expression.id \in DOMAIN types THEN Checked(Err(TypeAlreadyAnnotatedFailure), types)
    ELSE Checked(OkType(type),
                 [id \in DOMAIN types \cup {expression.id} |->
                     IF id = expression.id THEN type ELSE types[id]])

\* checker.type_check: the type of the expression, recorded in the type map.
type_check(types, expression) ==
    IF expression.typed.tag = "Err" THEN Checked(expression.typed, types)
    ELSE set_type(types, expression, expression.typed.type)

\* check_special_fetch_entry that takes any key.
check_special_fetch_entry_any_key(types, args, contract_context) ==
    IF Len(args) < 2 THEN Checked(Err(IncorrectArgumentCount(2, Len(args))), types)
    ELSE IF ~args[1].is_atom THEN Checked(Err(BadMapName), types)
    ELSE
    LET map_name == args[1].name
        named == set_type(types, args[1], no_type)
    IN  IF named.result.tag = "Err" THEN named
        ELSE
        LET key == type_check(named.type_map, args[2])
        IN  IF key.result.tag = "Err" THEN key
            ELSE
            LET found == ContractContext_get_map_type(contract_context, map_name)
            IN  IF found = {} THEN Checked(Err(NoSuchMap(map_name)), key.type_map)
                ELSE
                LET map_type == CHOOSE t \in found : TRUE
                IN  Checked(OkType(map_type.value_type), key.type_map)

\* check_special_fetch_entry
check_special_fetch_entry(types, args, contract_context) ==
    IF Len(args) < 2 THEN Checked(Err(IncorrectArgumentCount(2, Len(args))), types)
    ELSE IF ~args[1].is_atom THEN Checked(Err(BadMapName), types)
    ELSE
    LET map_name == args[1].name
        named == set_type(types, args[1], no_type)
    IN  IF named.result.tag = "Err" THEN named
        ELSE
        LET key == type_check(named.type_map, args[2])
        IN  IF key.result.tag = "Err" THEN key
            ELSE
            LET found == ContractContext_get_map_type(contract_context, map_name)
            IN  IF found = {} THEN Checked(Err(NoSuchMap(map_name)), key.type_map)
                ELSE
                LET map_type == CHOOSE t \in found : TRUE
                    key_type == key.result.type
                IN  IF ~admits_type(map_type.key_type, key_type)
                    THEN Checked(Err(TypeError(map_type.key_type, key_type)), key.type_map)
                    ELSE Checked(OkType(map_type.value_type), key.type_map)

\* check_special_fetch_contract_entry
check_special_fetch_contract_entry(types, args, db) ==
    IF Len(args) < 3 THEN Checked(Err(IncorrectArgumentCount(3, Len(args))), types)
    ELSE IF ~args[1].is_atom THEN Checked(Err(ContractCallExpectName), types)
    ELSE IF ~args[2].is_atom THEN Checked(Err(BadMapName), types)
    ELSE
    LET contract_name == args[1].name
        map_name == args[2].name
        contract_named == set_type(types, args[1], no_type)
    IN  IF contract_named.result.tag = "Err" THEN contract_named
        ELSE
        LET named == set_type(contract_named.type_map, args[2], no_type)
        IN  IF named.result.tag = "Err" THEN named
            ELSE
            LET key == type_check(named.type_map, args[3])
            IN  IF key.result.tag = "Err" THEN key
                ELSE
                LET found == AnalysisDatabase_get_map_type(db, contract_name, map_name)
                IN  IF found.tag = "Err" THEN Checked(found, key.type_map)
                    ELSE
                    LET key_type == key.result.type
                    IN  IF ~admits_type(found.types.key_type, key_type)
                        THEN Checked(Err(TypeError(found.types.key_type, key_type)), key.type_map)
                        ELSE Checked(OkType(found.types.value_type), key.type_map)

\* check_special_delete_entry
check_special_delete_entry(types, args, contract_context) ==
    IF Len(args) < 2 THEN Checked(Err(IncorrectArgumentCount(2, Len(args))), types)
    ELSE IF ~args[1].is_atom THEN Checked(Err(BadMapName), types)
    ELSE
    LET map_name == args[1].name
        named == set_type(types, args[1], no_type)
    IN  IF named.result.tag = "Err" THEN named
        ELSE
        LET key == type_check(named.type_map, args[2])
        IN  IF key.result.tag = "Err" THEN key
            ELSE
            LET found == ContractContext_get_map_type(contract_context, map_name)
            IN  IF found = {} THEN Checked(Err(NoSuchMap(map_name)), key.type_map)
                ELSE
                LET map_type == CHOOSE t \in found : TRUE
                    key_type == key.result.type
                IN  IF ~admits_type(map_type.key_type, key_type)
                    THEN Checked(Err(TypeError(map_type.key_type, key_type)), key.type_map)
                    ELSE Checked(OkType(BoolType), key.type_map)

\* check_special_set_entry. The error of a value that is not admitted
\* carries the expected and the found type of the key.
check_special_set_entry(types, args, contract_context) ==
    IF Len(args) < 3 THEN Checked(Err(IncorrectArgumentCount(3, Len(args))), types)
    ELSE IF ~args[1].is_atom THEN Checked(Err(BadMapName), types)
    ELSE
    LET map_name == args[1].name
        named == set_type(types, args[1], no_type)
    IN  IF named.result.tag = "Err" THEN named
        ELSE
        LET key == type_check(named.type_map, args[2])
        IN  IF key.result.tag = "Err" THEN key
            ELSE
            LET value == type_check(key.type_map, args[3])
            IN  IF value.result.tag = "Err" THEN value
                ELSE
                LET found == ContractContext_get_map_type(contract_context, map_name)
                IN  IF found = {} THEN Checked(Err(NoSuchMap(map_name)), value.type_map)
                    ELSE
                    LET map_type == CHOOSE t \in found : TRUE
                        key_type == key.result.type
                        value_type == value.result.type
                    IN  IF ~admits_type(map_type.key_type, key_type)
                        THEN Checked(Err(TypeError(map_type.key_type, key_type)), value.type_map)
                        ELSE IF ~admits_type(map_type.value_type, value_type)
                        THEN Checked(Err(TypeError(map_type.key_type, key_type)), value.type_map)
                        ELSE Checked(OkType(VoidType), value.type_map)

\* check_special_insert_entry. The error of a value that is not admitted
\* carries the expected and the found type of the key.
check_special_insert_entry(types, args, contract_context) ==
    IF Len(args) < 3 THEN Checked(Err(IncorrectArgumentCount(3, Len(args))), types)
    ELSE IF ~args[1].is_atom THEN Checked(Err(BadMapName), types)
    ELSE
    LET map_name == args[1].name
        named == set_type(types, args[1], no_type)
    IN  IF named.result.tag = "Err" THEN named
        ELSE
        LET key == type_check(named.type_map, args[2])
        IN  IF key.result.tag = "Err" THEN key
            ELSE
            LET value == type_check(key.type_map, args[3])
            IN  IF value.result.tag = "Err" THEN value
                ELSE
                LET found == ContractContext_get_map_type(contract_context, map_name)
                IN  IF found = {} THEN Checked(Err(NoSuchMap(map_name)), value.type_map)
                    ELSE
                    LET map_type == CHOOSE t \in found : TRUE
                        key_type == key.result.type
                        value_type == value.result.type
                    IN  IF ~admits_type(map_type.key_type, key_type)
                        THEN Checked(Err(TypeError(map_type.key_type, key_type)), value.type_map)
                        ELSE IF ~admits_type(map_type.value_type, value_type)
                        THEN Checked(Err(TypeError(map_type.key_type, key_type)), value.type_map)
                        ELSE Checked(OkType(BoolType), value.type_map)

\* Calls of the checks in one walk of the checker. `last` holds the call
\* that has just returned, with the type map it started from; the walk
\* goes on after a call that returned a type and ends with the first error.

MaxMapChecks == 2
MaxArgs == 4

\* The expressions an argument may be: the name of the declared map, the
\* name of a published contract, a name nothing declares, literals of type
\* int and of two buffer lengths, and an expression that does not type.
ArgumentExpressions ==
    {AtomExpression("m"), AtomExpression("c"), AtomExpression("x"),
     LiteralExpression(IntType), LiteralExpression(BufferType(1)), LiteralExpression(BufferType(3)),
     IllTypedExpression}

\* The expressions of the arguments after the third, which no check reads.
ExtraArgumentExpressions == {LiteralExpression(IntType), IllTypedExpression}

\* The argument lists of the call number `calls` + 1 of the walk: every
\* expression has an id of its own.
ArgumentLists(calls) ==
    UNION {{[i \in 1..n |-> WithId(expressions[i], MaxArgs * calls + i)] :
               expressions \in {e \in [1..n -> ArgumentExpressions] :
                                   \A i \in 4..n : e[i] \in ExtraArgumentExpressions}} :
           n \in 0..MaxArgs}

\* The number of map checks the walk has made.
MapChecksMade == IF last = NoCall THEN 0 ELSE last.calls

\* The walk has not ended.
WalkGoesOn ==
    \/ last = NoCall
    \/ last.kind = "map_check" /\ last.result.tag = "Ok" /\ last.calls < MaxMapChecks

MapCheckReturns(function, args, checked) ==
    /\ last' = [kind |-> "map_check", function |-> function, args |-> args, before |-> type_map,
                calls |-> MapChecksMade + 1, result |-> checked.result]
    /\ type_map' = checked.type_map
    /\ UNCHANGED <<snapshots, leader_keys, block_commits>>

CheckSpecialFetchEntry(args) ==
    MapCheckReturns("fetch-entry", args, check_special_fetch_entry(type_map, args, ContractContext))

CheckSpecialFetchContractEntry(args) ==
    MapCheckReturns("fetch-contract-entry", args,
                    check_special_fetch_contract_entry(type_map, args, AnalysisDatabase))

CheckSpecialDeleteEntry(args) ==
    MapCheckReturns("delete-entry", args, check_special_delete_entry(type_map, args, ContractContext))

CheckSpecialSetEntry(args) ==
    MapCheckReturns("set-entry", args, check_special_set_entry(type_map, args, ContractContext))

CheckSpecialInsertEntry(args) ==
    MapCheckReturns("insert-entry", args, check_special_insert_entry(type_map, args, ContractContext))

NextMaps ==
    \/ /\ WalkGoesOn
       /\ \E args \in ArgumentLists(MapChecksMade) : CheckSpecialFetchEntry(args)
    \/ /\ WalkGoesOn
       /\ \E args \in ArgumentLists(MapChecksMade) : CheckSpecialFetchContractEntry(args)
    \/ /\ WalkGoesOn
       /\ \E args \in ArgumentLists(MapChecksMade) : CheckSpecialDeleteEntry(args)
    \/ /\ WalkGoesOn
       /\ \E args \in ArgumentLists(MapChecksMade) : CheckSpecialSetEntry(args)
    \/ /\ WalkGoesOn
       /\ \E args \in ArgumentLists(MapChecksMade) : CheckSpecialInsertEntry(args)

SpecMaps == Init /\ [][NextMaps]_vars

-----------------------------------------------------------------------------
\* Properties of the map checks (specification SpecMaps).

\* The number of arguments each function requires.
RequiredArguments(function) ==
    IF function \in {"fetch-entry", "delete-entry"} THEN 2 ELSE 3

\* The positions of the key and of the value among the arguments.
KeyPosition(function) == IF function = "fetch-contract-entry" THEN 3 ELSE 2
ValuePosition == 3
TakesValue(function) == function \in {"set-entry", "insert-entry"}

\* The name argument of the call is an atom that names a declared map: a
\* map of the contract, or for fetch-contract-entry a map of the published
\* contract the first argument names.
NamesDeclaredMap(function, args) ==
    IF function = "fetch-contract-entry"
    THEN /\ args[1].is_atom
         /\ args[2].is_atom
         /\ args[1].name \in DOMAIN AnalysisDatabase.contracts
         /\ args[2].name \in DOMAIN AnalysisDatabase.contracts[args[1].name].map_types
    ELSE /\ args[1].is_atom
         /\ args[1].name \in DOMAIN ContractContext.map_types

DeclaredMapType(function, args) ==
    IF function = "fetch-contract-entry"
    THEN AnalysisDatabase.contracts[args[1].name].map_types[args[2].name]
    ELSE ContractContext.map_types[args[1].name]

\* The argument types, and the expected type admits its type.
Admitted(expected, expression) ==
    /\ expression.typed.tag = "Ok"
    /\ admits_type(expected, expression.typed.type)

\* The type each function returns for a map of the given types.
ReturnType(function, map_type) ==
    IF function \in {"fetch-entry", "fetch-contract-entry"} THEN map_type.value_type
    ELSE IF function = "set-entry" THEN VoidType
    ELSE BoolType

\* C33: a map check returns a type exactly when its name argument is an
\* atom that names a declared map and the declared types admit the type of
\* the key and, for set-entry and insert-entry, of the value; the type is
\* the value type of the map for the two fetches, Bool for delete-entry and
\* insert-entry, Void for set-entry. In every other case it returns an
\* error.
C33_MapCheckResult ==
    last.kind = "map_check" =>
        LET function == last.function
            args == last.args
            succeeds ==
                /\ Len(args) >= RequiredArguments(function)
                /\ NamesDeclaredMap(function, args)
                /\ Admitted(DeclaredMapType(function, args).key_type, args[KeyPosition(function)])
                /\ TakesValue(function) =>
                      Admitted(DeclaredMapType(function, args).value_type, args[ValuePosition])
        IN  IF succeeds
            THEN last.result = OkType(ReturnType(function, DeclaredMapType(function, args)))
            ELSE last.result.tag = "Err"

\* set-entry has returned Void for a key one byte shorter than the key
\* type of the map, after an earlier check of the same walk.
C33_Witness ==
    /\ last.kind = "map_check"
    /\ last.function = "set-entry"
    /\ last.calls = 2
    /\ last.result = OkType(VoidType)
    /\ last.args[2].typed.type = BufferType(1)
    /\ ContractContext.map_types[last.args[1].name].key_type = BufferType(2)

\* A check of set-entry or insert-entry of a declared map with a typed key
\* and a typed value has returned.
StoreCheckOfTypedOperands ==
    /\ last.kind = "map_check"
    /\ TakesValue(last.function)
    /\ Len(last.args) >= RequiredArguments(last.function)
    /\ NamesDeclaredMap(last.function, last.args)
    /\ last.args[2].typed.tag = "Ok"
    /\ last.args[ValuePosition].typed.tag = "Ok"

\* C34: the type error of set-entry and insert-entry names the operand
\* that was not admitted: the expected and the found key type when the key
\* is not admitted, the expected and the found value type when the key is
\* admitted and the value is not.
C34_TypeErrorNamesOperand ==
    StoreCheckOfTypedOperands =>
        LET map_type == DeclaredMapType(last.function, last.args)
            key_type == last.args[2].typed.type
            value_type == last.args[ValuePosition].typed.type
        IN  /\ ~admits_type(map_type.key_type, key_type) =>
                  last.result = Err(TypeError(map_type.key_type, key_type))
            /\ (/\ admits_type(map_type.key_type, key_type)
                /\ ~admits_type(map_type.value_type, value_type)) =>
                  last.result = Err(TypeError(map_type.value_type, value_type))

\* The part of C34 about the key: a key that is not admitted is reported
\* with the expected and the found key type.
C34_KeyErrorNamesKey ==
    StoreCheckOfTypedOperands =>
        LET map_type == DeclaredMapType(last.function, last.args)
            key_type == last.args[2].typed.type
        IN  ~admits_type(map_type.key_type, key_type) =>
                last.result = Err(TypeError(map_type.key_type, key_type))

\* What the code returns for a value that is not admitted: the error
\* carries the key types of the call.
C34_ValueErrorNamesKey ==
    StoreCheckOfTypedOperands =>
        LET map_type == DeclaredMapType(last.function, last.args)
            key_type == last.args[2].typed.type
            value_type == last.args[ValuePosition].typed.type
        IN  (/\ admits_type(map_type.key_type, key_type)
             /\ ~admits_type(map_type.value_type, value_type)) =>
                last.result = Err(TypeError(map_type.key_type, key_type))

\* C35: each check accepts exactly its required number of arguments; any
\* other number, smaller or larger, is answered with
\* IncorrectArgumentCount(required, actual) and leaves the type map as it
\* was.
C35_ExactArgumentCount ==
    (/\ last.kind = "map_check"
     /\ Len(last.args) # RequiredArguments(last.function)) =>
        /\ last.result =
              Err(IncorrectArgumentCount(RequiredArguments(last.function), Len(last.args)))
        /\ type_map = last.before

\* The part of C35 about too few arguments.
C35_TooFewArguments ==
    (/\ last.kind = "map_check"
     /\ Len(last.args) < RequiredArguments(last.function)) =>
        /\ last.result =
              Err(IncorrectArgumentCount(RequiredArguments(last.function), Len(last.args)))
        /\ type_map = last.before

\* A check given more arguments than it requires has returned a type.
ExtraArgumentsAccepted ==
    /\ last.kind = "map_check"
    /\ Len(last.args) > RequiredArguments(last.function)
    /\ last.result.tag = "Ok"

====
